---------------------------- MODULE Spec2Model ----------------------------
(***************************************************************************)
(* The implicit-step engine of hephaestus: the three time-domain operators *)
(* AVSolver, HCurlSolver and HCurlOperator, each driven by an external     *)
(* time integrator that calls ImplicitSolve(dt, X, dX_dt) once per step.   *)
(*                                                                         *)
(* Abstractions.                                                           *)
(*  - A vector is a sequence of integers, one entry per true DOF.          *)
(*  - An assembled form or matrix is the record of what it was assembled   *)
(*    from (coefficient names, the coefficient time, the time step): two   *)
(*    assemblies are equal when these agree.                               *)
(*  - A time step is `units` whole units plus `quanta` quanta of 0.5e-12   *)
(*    unit, so that the relative tolerance 1.0e-12 is RelTol quanta per    *)
(*    unit.                                                                *)
(*  - The linear solvers are opaque: Mult returns whatever the action's    *)
(*    input `sol` says on the rows it solves, converged or not.            *)
(*                                                                         *)
(* Three specifications share the module.  Spec steps the operators.       *)
(* SpecBuild builds an H(curl) problem: kernels are added, the grid        *)
(* functions and coefficients are registered, the equation system is      *)
(* initialised and its forms are built.  SpecSources initialises sources   *)
(* and auxiliary solvers and applies the sources to a linear form.  A      *)
(* registry is the set of names it holds, or a map from the names to who   *)
(* supplied the entry.                                                     *)
(***************************************************************************)
EXTENDS Integers, Sequences, FiniteSets, TLC

\* ------------------------------------------------------------------ bounds
MaxSteps == 3   \* ImplicitSolve invocations in one run
MaxDofs == 2    \* true DOFs of one finite element space
MaxIntBC == 1   \* integrated boundary conditions registered per variable
MaxKernels == 3 \* AddKernel calls made while a problem is built
MaxPasses == 2  \* assembly passes of an initialised equation system
MaxSources == 2 \* sources and auxiliary solvers initialised
MaxInits == 2   \* Init calls made on one closed coil
NumProcs == 2   \* processes of the communicator
MaxCalls == 2   \* calcFlux calls each process makes
MaxFaces == 2   \* boundary elements a process owns

\* 1.0e-12 (relative tolerance on dt), in quanta of 0.5e-12 per unit of dt
RelTol == 2

Kinds == {"AVSolver", "HCurlSolver", "HCurlOperator"}

\* Time steps the integrator may ask for: 1, 1 + 0.5e-12, 1 + 1.5e-12.
DtValues ==
  { [units |-> 1, quanta |-> 0], [units |-> 1, quanta |-> 1],
    [units |-> 1, quanta |-> 3] }
NoDt == [units |-> 0, quanta |-> 0]

FieldValues == {0, 1}    \* entries of the state vector the integrator hands in
\* What a HyprePCG::Mult may leave behind: the solution, or the iterate it
\* stopped at when the iteration budget ran out.
SolverOutcomes ==
  { [x |-> 1, converged |-> TRUE], [x |-> 2, converged |-> FALSE] }

VARIABLES
  kind,     \* which operator class the problem instantiated
  cfg,      \* the problem: FE space sizes, essential DOFs, integrated BCs
  op,       \* the operator object's members
  X,        \* the integrator's state vector (argument X of ImplicitSolve)
  dX_dt,    \* the integrator's output vector (argument dX_dt)
  t,        \* TimeDependentOperator::t, as ticks of the integrator
  log,      \* the calls made by the last ImplicitSolve, in order
  conv,     \* per linear system, did its last Mult converge
  solved,   \* per linear system, the entry its solver returned last
  X_entry,  \* X as the integrator handed it to the last ImplicitSolve
  es,       \* the equation system: variable names and kernels
  added,    \* the names handed to the equation system, in call order
  phase,    \* where the problem builder is in the problem's life cycle
  gridfunctions, \* the grid-function registry: who supplied each name's field
  registrant, \* the solver that registered its variables in the registry
  coefficients,  \* the names the scalar-coefficient registry holds
  forms,    \* the terms the equation system's forms hold
  passes,   \* assembly passes made
  abort,    \* the name whose lookup aborted the run, "" if none did
  sources,  \* the sources and auxiliary solvers whose Init has run
  linear_form, \* the linear form the sources are applied to
  J_parent, \* the grid function of the current density
  fespaces, \* the names the finite element space registry holds
  applied,  \* the sources applied in the current assembly pass
  mesh,     \* the parent mesh: domain and boundary attributes
  V_parent, \* the grid function of the electric potential
  I_now,    \* the value of the total current at the current time
  postprocessed, \* the auxiliary solvers solved in the current pass
  fpc,      \* per process, where it is in calcFlux
  local,    \* per process, the locals of its calcFlux call
  calls,    \* per process, the calcFlux calls it has made
  reductions, \* per process, the reductions it has entered
  total_flux, \* per process, what its last calcFlux returned
  arrived,  \* the processes waiting in the current reduction
  reduced   \* the sum of the contributions of the processes waiting

stepVars == <<kind, cfg, op, X, dX_dt, t, log, conv, solved, X_entry>>
buildVars == <<es, added, phase, gridfunctions, registrant, coefficients, forms,
               passes, abort>>
sourceVars == <<sources, linear_form, J_parent, fespaces, applied, mesh,
                V_parent, I_now, postprocessed>>
fluxVars == <<fpc, local, calls, reductions, total_flux, arrived, reduced>>
srcVars == <<sourceVars, fluxVars>>
vars == <<stepVars, buildVars, srcVars>>

\* ----------------------------------------------------------------- vectors
Abs(n) == IF n < 0 THEN -n ELSE n

ConstVec(n, v) == [i \in 1..n |-> v]

RECURSIVE SumTo(_, _)
SumTo(a, i) == IF i = 0 THEN 0 ELSE SumTo(a, i - 1) + a[i]

\* mfem::Array<int>::PartialSum(): in place, a[i] becomes a[0] + ... + a[i].
PartialSum_NoAccumulate(a) == a
PartialSum(a) == [i \in 1..Len(a) |-> SumTo(a, i)]

\* Block(v, off, n): entries off+1 .. off+n of v (0-based offset off).
Block(v, off, n) == [i \in 1..n |-> v[off + i]]

\* v with entries off+1 .. off+Len(w) overwritten by w.
WriteBlock(v, off, w) ==
  [i \in 1..Len(v) |-> IF i > off /\ i <= off + Len(w) THEN w[i - off] ELSE v[i]]

\* fabs(dt - dt_cached) > 1.0e-12 * dt
Exceeds(dt, cached) ==
  \/ dt.units # cached.units
  \/ Abs(dt.quanta - cached.quanta) > RelTol * dt.units

\* A time-dependent coefficient (material property, boundary flux) evaluated
\* at `time`: piecewise constant, so two consecutive steps may see one value.
CoefAt(time) == (time \div 2) % 2

\* --------------------------------------------------- forms, matrices, solvers
\* An assembled bilinear form: which form, the coefficient value and the time
\* step it was assembled with (NoDt for a form that does not read dtCoef).
Assembled(name, coef, dt) == [form |-> name, coef |-> coef, dt |-> dt]
NullForm == [form |-> "NULL", coef |-> 0, dt |-> NoDt]

\* A linear form: the boundary integrators added to it so far and its vector
\* (one number: every entry of the vector holds it).
NewLinearForm == [integrators |-> 0, vec |-> 0]

NullMatrix == [form |-> NullForm, ess |-> {}]
NullSolver == [id |-> 0, A |-> NullMatrix]

\* A grid function made a reference (MakeRef) into `vec` at offset `off`.
Ref(vec, off, n) == [vec |-> vec, off |-> off, n |-> n]

\* The machine an ImplicitSolve runs on: the operator and the two vectors it
\* is handed (X as the integrator passes it in), with the calls made so far.
Machine(Xin) == [op |-> op, X |-> Xin, dX_dt |-> dX_dt, log |-> <<>>]

\* Record a call, with the time and time step the coefficients hold as it runs.
Event(m, ev, sys) ==
  [m EXCEPT !.log = Append(@, [ev |-> ev, sys |-> sys,
                               time |-> m.op.coefTime, dt |-> m.op.dtCoef])]

ReadGF(m, ref) ==
  Block(IF ref.vec = "X" THEN m.X ELSE m.dX_dt, ref.off, ref.n)

WriteGF(m, ref, w) ==
  IF ref.vec = "X" THEN [m EXCEPT !.X = WriteBlock(@, ref.off, w)]
  ELSE [m EXCEPT !.dX_dt = WriteBlock(@, ref.off, w)]

\* BCMap::applyEssentialBCs(name, ess_tdof_list, gf, mesh): the essential true
\* DOFs of the variable, and gf set to the boundary data on them.
applyEssentialBCs(ess, gf, time) ==
  [i \in 1..Len(gf) |-> IF i \in ess THEN CoefAt(time) ELSE gf[i]]

\* BCMap::applyIntegratedBCs(name, lf, mesh): every integrated BC of the
\* variable adds its boundary integrator to the linear form.
applyIntegratedBCs(lf, n) == [lf EXCEPT !.integrators = @ + n]

\* mfem::LinearForm::Assemble(): the vector is zeroed, then every integrator
\* the form holds adds its boundary flux, 1 + CoefAt(time) per entry.
AssembleLF(lf, time) ==
  [lf EXCEPT !.vec = 0 + lf.integrators * (1 + CoefAt(time))]

\* mfem::BilinearForm::FormLinearSystem(ess_tdof_list, x, b, A, X, B): the
\* essential rows and columns are eliminated; X starts from x, which holds the
\* boundary values; B carries them on the essential rows.
FormLinearSystem_NoElimination(form, ess, x, b) ==
  [A |-> [form |-> form, ess |-> {}], X |-> x, B |-> [rhs |-> b, elim |-> {}]]
FormLinearSystem(form, ess, x, b) ==
  [A |-> [form |-> form, ess |-> ess],
   X |-> x,
   B |-> [rhs |-> b, elim |-> {<<i, x[i]>> : i \in ess}]]

\* Solver::Mult(B, X): the rows the solver's matrix eliminated keep the entry
\* of the initial guess; the others get what the solver computes.
Mult(solver, Xs, sol) ==
  [i \in 1..Len(Xs) |-> IF i \in solver.A.ess THEN Xs[i] ELSE sol]

\* a->RecoverFEMSolution(X, b, gf): with no static condensation the solution
\* vector is copied into the grid function, here through its reference.
RecoverFEMSolution_Skip(m, ref, x, sys) == m
RecoverFEMSolution(m, ref, x, sys) ==
  Event(WriteGF(m, ref, x), "RecoverSolution", sys)

\* new HypreBoomerAMG(A) / HypreAMS(A) / HyprePCG(A): a solver set up on A.
NewSolver(o, A) == [id |-> o.allocs + 1, A |-> A]

\* ------------------------------------------------------------------ AVSolver
\* AVSolver::AVSolver: the block offsets of (p, u) and the operator's size.
AVSolver_ctor(sizes) ==
  LET true_offsets == PartialSum(<<0, sizes[1], sizes[2]>>)
  IN [true_offsets |-> true_offsets,
      height |-> true_offsets[3], width |-> true_offsets[3],
      a1 |-> NullForm, amg_a0 |-> NullSolver, pcg_a0 |-> NullSolver,
      ams_a1 |-> NullSolver, pcg_a1 |-> NullSolver]

\* AVSolver::Init(X): the coefficients, the forms that are assembled once, the
\* linear forms, and p_, u_ made references into X and projected to zero.
AVSolver_Init(o, sizes) ==
  [true_offsets |-> o.true_offsets, height |-> o.height, width |-> o.width,
   dtCoef |-> [units |-> 1, quanta |-> 0], coefTime |-> 0,
   a0 |-> Assembled("a0", CoefAt(0), NoDt),
   m1 |-> Assembled("m1", CoefAt(0), NoDt),
   curlCurl |-> Assembled("curlCurl", CoefAt(0), NoDt),
   grad |-> Assembled("grad", 0, NoDt),
   a1 |-> o.a1, dt_A1 |-> NoDt,
   b0 |-> NewLinearForm, b1 |-> NewLinearForm, b1vec |-> <<>>,
   A0 |-> NullMatrix, X0 |-> <<>>, B0 |-> <<>>,
   A1 |-> NullMatrix, X1 |-> <<>>, B1 |-> <<>>,
   amg_a0 |-> o.amg_a0, pcg_a0 |-> o.pcg_a0,
   ams_a1 |-> o.ams_a1, pcg_a1 |-> o.pcg_a1,
   p_ |-> Ref("X", o.true_offsets[1], sizes[1]),
   u_ |-> Ref("X", o.true_offsets[2], sizes[2]),
   dp_ |-> Ref("none", 0, sizes[1]),
   du_ |-> Ref("none", 0, sizes[2]),
   allocs |-> 0]

\* p_, u_ are made references into X and dp_, du_ into dX_dt, at the block
\* offsets of p and u (av_solver.cpp 141-145).
AV_MakeRefs_OneOffset(m) ==
  Event([m EXCEPT !.op.p_ = Ref("X", m.op.true_offsets[1], @.n),
                  !.op.u_ = Ref("X", m.op.true_offsets[2], @.n),
                  !.op.dp_ = Ref("dX_dt", m.op.true_offsets[1], @.n),
                  !.op.du_ = Ref("dX_dt", m.op.true_offsets[1], @.n)],
        "MakeRef", 0)
AV_MakeRefs(m) ==
  Event([m EXCEPT !.op.p_ = Ref("X", m.op.true_offsets[1], @.n),
                  !.op.u_ = Ref("X", m.op.true_offsets[2], @.n),
                  !.op.dp_ = Ref("dX_dt", m.op.true_offsets[1], @.n),
                  !.op.du_ = Ref("dX_dt", m.op.true_offsets[2], @.n)],
        "MakeRef", 0)

\* dX_dt = 0; dtCoef.constant = dt; the references; the coefficients' time
\* (av_solver.cpp 138-147).
AV_Begin(m, dt, time) ==
  LET m1_ == [m EXCEPT !.dX_dt = ConstVec(Len(@), 0), !.op.dtCoef = dt]
  IN Event([AV_MakeRefs(m1_) EXCEPT !.op.coefTime = time], "SetTime", 0)

\* b0 is zeroed, the boundary conditions of p are applied, b0 is assembled and
\* the system a0(p, p') = b0(p') is formed (av_solver.cpp 153-160).
AV_FormA0(m) ==
  LET Phi_gf == applyEssentialBCs(cfg.ess[1], ConstVec(m.op.p_.n, 0),
                                  m.op.coefTime)
      m1_ == Event([m EXCEPT !.op.b0 =
                      AssembleLF(applyIntegratedBCs([@ EXCEPT !.vec = 0],
                                                    cfg.nbc[1]),
                                 m.op.coefTime)],
                   "Assemble", 0)
      ls == FormLinearSystem(m1_.op.a0, cfg.ess[1], Phi_gf, m1_.op.b0.vec)
  IN Event([m1_ EXCEPT !.op.A0 = ls.A, !.op.X0 = ls.X, !.op.B0 = ls.B],
           "FormLinearSystem", 0)

\* The solver of a0 is created if there is none, the system is solved and the
\* solution recovered into p_; dp_ = 0 (av_solver.cpp 162-178).
AV_SolveA0(m, sol0) ==
  LET m1_ == IF m.op.amg_a0 = NullSolver
             THEN [m EXCEPT !.op.amg_a0 = NewSolver(m.op, m.op.A0),
                            !.op.allocs = @ + 1]
             ELSE m
      m2 == IF m1_.op.pcg_a0 = NullSolver
            THEN Event([m1_ EXCEPT !.op.pcg_a0 = NewSolver(m1_.op, m1_.op.A0),
                                   !.op.allocs = @ + 1], "NewSolver", 0)
            ELSE Event(m1_, "ReuseSolver", 0)
      m3 == Event([m2 EXCEPT !.op.X0 = Mult(m2.op.pcg_a0, @, sol0)],
                  "Mult", 0)
      m4 == RecoverFEMSolution(m3, m3.op.p_, m3.op.X0, 0)
  IN WriteGF(m4, m4.op.dp_, ConstVec(m4.op.dp_.n, 0))

\* b1 = -curlCurl^T u_ + m1 grad p_, with du_ as a temporary; the boundary
\* conditions of u are applied (av_solver.cpp 189-208).
AV_buildB1(m) ==
  LET gradp == ReadGF(m, m.op.p_)
      m1_ == WriteGF(m, m.op.du_, ConstVec(m.op.du_.n, gradp[1]))
  IN [m1_ EXCEPT
        !.op.b1vec = [curlCurl |-> m.op.curlCurl, u |-> ReadGF(m, m.op.u_),
                      m1 |-> m.op.m1, grad |-> m.op.grad, p |-> gradp],
        !.op.b1 = applyIntegratedBCs(@, cfg.nbc[2])]

\* AVSolver::buildA1: a1 = (beta u, u') + (alpha dt curl u, curl u'), assembled
\* with the coefficients as they are now; dt_A1 records dtCoef.
buildA1_AllForms(o) ==
  [o EXCEPT !.a1 = Assembled("a1", CoefAt(o.coefTime), o.dtCoef),
            !.m1 = Assembled("m1", CoefAt(o.coefTime), NoDt),
            !.dt_A1 = o.dtCoef]
buildA1(o) ==
  [o EXCEPT !.a1 = Assembled("a1", CoefAt(o.coefTime), o.dtCoef),
            !.dt_A1 = o.dtCoef]

\* a1 is rebuilt when there is none or dt moved beyond the tolerance, and the
\* system a1(du/dt, u') = b1(u') is formed (av_solver.cpp 204-214).
AV_FormA1_OnlyWhenNull(m) ==
  LET J_gf == applyEssentialBCs(cfg.ess[2], ConstVec(m.op.u_.n, 0),
                                m.op.coefTime)
      m1_ == IF m.op.a1 = NullForm
             THEN Event([m EXCEPT !.op = buildA1(@)], "Assemble", 1)
             ELSE m
      ls == FormLinearSystem(m1_.op.a1, cfg.ess[2], J_gf, m1_.op.b1vec)
  IN Event([m1_ EXCEPT !.op.A1 = ls.A, !.op.X1 = ls.X, !.op.B1 = ls.B],
           "FormLinearSystem", 1)
AV_FormA1(m) ==
  LET J_gf == applyEssentialBCs(cfg.ess[2], ConstVec(m.op.u_.n, 0),
                                m.op.coefTime)
      m1_ == IF m.op.a1 = NullForm \/ Exceeds(m.op.dtCoef, m.op.dt_A1)
             THEN Event([m EXCEPT !.op = buildA1(@)], "Assemble", 1)
             ELSE m
      ls == FormLinearSystem(m1_.op.a1, cfg.ess[2], J_gf, m1_.op.b1vec)
  IN Event([m1_ EXCEPT !.op.A1 = ls.A, !.op.X1 = ls.X, !.op.B1 = ls.B],
           "FormLinearSystem", 1)

\* The solver and preconditioner of a1 are created if there are none, the
\* system is solved and the solution recovered into du_ (av_solver.cpp 216-231).
AV_SolveA1_AlwaysNew(m, sol1) ==
  LET m1_ == [m EXCEPT !.op.ams_a1 = NewSolver(m.op, m.op.A1),
                       !.op.allocs = @ + 1]
      m2 == Event([m1_ EXCEPT !.op.pcg_a1 = NewSolver(m1_.op, m1_.op.A1),
                              !.op.allocs = @ + 1], "NewSolver", 1)
      m3 == Event([m2 EXCEPT !.op.X1 = Mult(m2.op.pcg_a1, @, sol1)],
                  "Mult", 1)
  IN RecoverFEMSolution(m3, m3.op.du_, m3.op.X1, 1)
AV_SolveA1(m, sol1) ==
  LET m1_ == IF m.op.ams_a1 = NullSolver
             THEN [m EXCEPT !.op.ams_a1 = NewSolver(m.op, m.op.A1),
                            !.op.allocs = @ + 1]
             ELSE m
      m2 == IF m1_.op.pcg_a1 = NullSolver
            THEN Event([m1_ EXCEPT !.op.pcg_a1 = NewSolver(m1_.op, m1_.op.A1),
                                   !.op.allocs = @ + 1], "NewSolver", 1)
            ELSE Event(m1_, "ReuseSolver", 1)
      m3 == Event([m2 EXCEPT !.op.X1 = Mult(m2.op.pcg_a1, @, sol1)],
                  "Mult", 1)
  IN RecoverFEMSolution(m3, m3.op.du_, m3.op.X1, 1)

\* AVSolver::ImplicitSolve(dt, X, dX_dt).
AV_ImplicitSolve_B1First(m, dt, time, sol0, sol1) ==
  AV_SolveA1(
    AV_FormA1(AV_SolveA0(AV_FormA0(AV_buildB1(AV_Begin(m, dt, time))), sol0)),
    sol1)
AV_ImplicitSolve(m, dt, time, sol0, sol1) ==
  AV_SolveA1(
    AV_FormA1(AV_buildB1(AV_SolveA0(AV_FormA0(AV_Begin(m, dt, time)), sol0))),
    sol1)

\* ------------------------------------------- the equation system (weak form)
\* The variables' essential true DOFs as rows of the block system.
BlockEss(offsets) ==
  UNION { {offsets[i] + e : e \in cfg.ess[i]} : i \in 1..Len(cfg.sizes) }

\* EquationSystem construction: no form assembled yet.
ES_New == [blf |-> NullForm, valid |-> FALSE,
           lf |-> [i \in 1..Len(cfg.sizes) |-> NewLinearForm]]

\* setTimeStep(dt): stores the step size for the assembly that follows and
\* invalidates the dt-dependent bilinear form when the step size changed.
ES_setTimeStep(o, dt) ==
  [o EXCEPT !.dtCoef = dt, !.es.valid = @ /\ o.es.blf.dt = dt]

\* updateEquationSystem(bc_map, sources) / updateWeakForm: the linear forms
\* are cleared and their terms applied and assembled again; the bilinear form
\* is reassembled only when invalidated.
ES_update(o) ==
  [o EXCEPT
     !.es.lf = [i \in 1..Len(cfg.sizes) |->
                  AssembleLF(applyIntegratedBCs(NewLinearForm, cfg.nbc[i]),
                             o.coefTime)],
     !.es.blf = IF o.es.valid THEN @
                ELSE Assembled("a1", CoefAt(o.coefTime), o.dtCoef),
     !.es.valid = TRUE]

\* FormLinearSystem(A, X, B): per variable, a zero field carrying the boundary
\* data on its essential DOFs; those rows are eliminated from the block system.
ES_FormLinearSystem(o) ==
  LET x == [k \in 1..o.height |->
              IF k \in BlockEss(o.true_offsets) THEN CoefAt(o.coefTime) ELSE 0]
  IN FormLinearSystem(o.es.blf, BlockEss(o.true_offsets), x,
                      [i \in 1..Len(cfg.sizes) |-> o.es.lf[i].vec])

\* RecoverFEMSolution(trueX, gridfunctions): block i of the solution is
\* written into the i-th time-derivative variable.
RECURSIVE ES_RecoverFEMSolution(_, _, _)
ES_RecoverFEMSolution(m, trueX, i) ==
  IF i = 0 THEN m
  ELSE LET r == m.op.trial_vars[i]
       IN WriteGF(ES_RecoverFEMSolution(m, trueX, i - 1), r,
                  Block(trueX, m.op.true_offsets[i], r.n))

\* --------------------------------------------------------------- HCurlSolver
\* HCurlSolver::RegisterVariables: the block offsets of (u) and the size.
HCurlSolver_RegisterVariables(sizes) ==
  LET true_offsets == PartialSum(<<0, sizes[1]>>)
  IN [true_offsets |-> true_offsets,
      height |-> true_offsets[2], width |-> true_offsets[2]]

\* HCurlSolver::HCurlSolver and HCurlSolver::Init(X).
HCurlSolver_Init(o, sizes) ==
  [true_offsets |-> o.true_offsets, height |-> o.height, width |-> o.width,
   dtCoef |-> [units |-> 1, quanta |-> 0], coefTime |-> 0,
   es |-> ES_New,
   A1 |-> NullMatrix, X1 |-> <<>>, B1 |-> <<>>,
   a1_solver |-> NullSolver,
   test_vars |-> <<Ref("X", o.true_offsets[1], sizes[1])>>,
   trial_vars |-> <<Ref("none", 0, sizes[1])>>,
   curl_u_ |-> <<>>,
   allocs |-> 0]

\* dX_dt = 0; u_ and du_ are made references into X and dX_dt; the
\* coefficients' time; the weak form's time step and update
\* (function_dirichlet_bc.cpp 178-184).
HS_Update(m, dt, time) ==
  LET o == m.op
      m1_ == [m EXCEPT !.dX_dt = ConstVec(Len(@), 0)]
      m2 == Event([m1_ EXCEPT
                     !.op.test_vars[1] = Ref("X", o.true_offsets[1], @.n),
                     !.op.trial_vars[1] = Ref("dX_dt", o.true_offsets[1], @.n)],
                  "MakeRef", 1)
      m3 == Event([m2 EXCEPT !.op.coefTime = time], "SetTime", 1)
      m4 == Event([m3 EXCEPT !.op = ES_setTimeStep(@, dt)], "SetTimeStep", 1)
  IN Event([m4 EXCEPT !.op = ES_update(@)], "UpdateSystem", 1)

\* The system is formed, the solver created if there is none, the system
\* solved and recovered into du_; curl_u_ = curl(u_ + dt du_)
\* (function_dirichlet_bc.cpp 185-194).
HS_Solve(m, dt, sol) ==
  LET ls == ES_FormLinearSystem(m.op)
      m1_ == Event([m EXCEPT !.op.A1 = ls.A, !.op.X1 = ls.X, !.op.B1 = ls.B],
                   "FormLinearSystem", 1)
      m2 == IF m1_.op.a1_solver = NullSolver
            THEN Event([m1_ EXCEPT
                          !.op.a1_solver = NewSolver(m1_.op, m1_.op.A1),
                          !.op.allocs = @ + 1], "NewSolver", 1)
            ELSE Event(m1_, "ReuseSolver", 1)
      m3 == Event([m2 EXCEPT !.op.X1 = Mult(m2.op.a1_solver, @, sol)],
                  "Mult", 1)
      m4 == RecoverFEMSolution(m3, m3.op.trial_vars[1], m3.op.X1, 1)
  IN [m4 EXCEPT !.op.curl_u_ =
        [u |-> ReadGF(m4, m4.op.test_vars[1]),
         du |-> ReadGF(m4, m4.op.trial_vars[1]), dt |-> dt]]

\* HCurlSolver::ImplicitSolve(dt, X, dX_dt).
HS_ImplicitSolve(m, dt, time, sol) == HS_Solve(HS_Update(m, dt, time), dt, sol)

\* ------------------------------------------------------------- HCurlOperator
\* TimeDomainEquationSystemOperator::SetGridFunctions: block offsets over the
\* equation system's variables, in their order.
HCurlOperator_SetGridFunctions(sizes) ==
  LET true_offsets == PartialSum(<<0>> \o sizes)
  IN [true_offsets |-> true_offsets,
      height |-> true_offsets[Len(true_offsets)],
      width |-> true_offsets[Len(true_offsets)]]

\* HCurlOperator::HCurlOperator.
HCurlOperator_ctor(o, sizes) ==
  [true_offsets |-> o.true_offsets, height |-> o.height, width |-> o.width,
   dtCoef |-> [units |-> 1, quanta |-> 0], coefTime |-> 0,
   es |-> ES_New,
   A1 |-> NullMatrix, X1 |-> <<>>, B1 |-> <<>>,
   a1_solver |-> NullSolver,
   test_vars |-> [i \in 1..Len(sizes) |-> Ref("none", 0, sizes[i])],
   trial_vars |-> [i \in 1..Len(sizes) |-> Ref("none", 0, sizes[i])],
   curl_u_ |-> <<>>,
   allocs |-> 0]

\* The variables are made references into X and their time derivatives into
\* dX_dt (hcurl_formulation.cpp 168-174).
HO_MakeRefs(m) ==
  Event([m EXCEPT
           !.op.test_vars = [i \in DOMAIN @ |->
              Ref("X", m.op.true_offsets[i], @[i].n)],
           !.op.trial_vars = [i \in DOMAIN @ |->
              Ref("dX_dt", m.op.true_offsets[i], @[i].n)]],
        "MakeRef", 1)

\* The coefficients' time, the equation system's time step and update
\* (hcurl_formulation.cpp 175-177).
HO_Update_StepLast(m, dt, time) ==
  LET m1_ == Event([m EXCEPT !.op.coefTime = time], "SetTime", 1)
      m2 == Event([m1_ EXCEPT !.op = ES_update(@)], "UpdateSystem", 1)
  IN Event([m2 EXCEPT !.op = ES_setTimeStep(@, dt)], "SetTimeStep", 1)
HO_Update(m, dt, time) ==
  LET m1_ == Event([m EXCEPT !.op.coefTime = time], "SetTime", 1)
      m2 == Event([m1_ EXCEPT !.op = ES_setTimeStep(@, dt)], "SetTimeStep", 1)
  IN Event([m2 EXCEPT !.op = ES_update(@)], "UpdateSystem", 1)

\* The block system is formed, a new solver made for it, the system solved
\* and recovered (hcurl_formulation.cpp 179-186).
HO_Solve(m, sol) ==
  LET ls == ES_FormLinearSystem(m.op)
      m1_ == Event([m EXCEPT !.op.A1 = ls.A, !.op.X1 = ls.X, !.op.B1 = ls.B],
                   "FormLinearSystem", 1)
      m2 == Event([m1_ EXCEPT !.op.a1_solver = NewSolver(m1_.op, m1_.op.A1),
                              !.op.allocs = @ + 1], "NewSolver", 1)
      m3 == Event([m2 EXCEPT !.op.X1 = Mult(m2.op.a1_solver, @, sol)],
                  "Mult", 1)
  IN Event(ES_RecoverFEMSolution(m3, m3.op.X1, Len(m3.op.trial_vars)),
           "RecoverSolution", 1)

\* HCurlOperator::ImplicitSolve(dt, X, dX_dt).
HO_ImplicitSolve(m, dt, time, sol) ==
  HO_Solve(HO_Update(HO_MakeRefs(m), dt, time), sol)

\* ------------------------------------------------- building the problem
\* The formulation's parameters and the names a user passes to AddKernel.
h_curl_var_name == "h_curl_var"
alpha_coef_name == "alpha"
beta_coef_name == "beta"
VarNames == {h_curl_var_name, "electric_potential"}
CoefNames == {alpha_coef_name, "sigma"}
UserGridFunctions == SUBSET VarNames
UserCoefficients == SUBSET {alpha_coef_name, beta_coef_name, "sigma"}

\* CurlCurlEquationSystem::CurlCurlEquationSystem: the name of the
\* coefficient scaled by the time step; only the name is formed here.
dtalpha_coef_name == "dt_" \o alpha_coef_name

\* The name of the time derivative of a variable.
GetTimeDerivativeName(name) == "d" \o name \o "_dt"

\* Does the sequence of names hold the name.
VectorContainsName(names, name) == \E i \in 1..Len(names) : names[i] = name

\* The equation system as constructed: no variable names, no kernels.
EquationSystem_New ==
  [trial_var_names |-> <<>>, trial_var_time_derivative_names |-> <<>>,
   kernels |-> <<>>]

\* TimeDependentEquationSystem::AddTrialVariableNameIfMissing(name): the
\* name is appended to the ordered trial-variable names unless it is there,
\* and the name of its time derivative to the time-derivative names.
AddTrialVariableNameIfMissing(e, name) ==
  IF VectorContainsName(e.trial_var_names, name) THEN e
  ELSE [e EXCEPT !.trial_var_names = Append(@, name),
                 !.trial_var_time_derivative_names =
                     Append(@, GetTimeDerivativeName(name))]

\* EquationSystem::AddKernel(name, kernel): the kernel is filed, in
\* registration order, in the bucket of the test variable `name`.
EquationSystem_AddKernel(e, name, kernel) ==
  [e EXCEPT !.kernels = Append(@, [bucket |-> name, kernel |-> kernel])]

\* A kernel object as constructed from its parameters: the coefficient name
\* is kept, the coefficient itself is resolved by Init.
NewKernel(type, coef_name) ==
  [type |-> type, coef_name |-> coef_name, coef |-> "unset"]

\* EquationSystemProblemBuilderInterface::AddKernel(var_name, kernel).
Builder_AddKernel_NoRegister(e, var_name, kernel) ==
  EquationSystem_AddKernel(e, var_name, kernel)
Builder_AddKernel(e, var_name, kernel) ==
  EquationSystem_AddKernel(AddTrialVariableNameIfMissing(e, var_name),
                           var_name, kernel)

\* CurlCurlEquationSystem::addKernels, the three addKernel calls: the
\* kernels are filed in the bucket of the variable's time derivative.
CurlCurl_FileKernels(e) ==
  LET dh_curl_var_dt == GetTimeDerivativeName(h_curl_var_name)
  IN EquationSystem_AddKernel(
       EquationSystem_AddKernel(
         EquationSystem_AddKernel(e, dh_curl_var_dt,
                                  NewKernel("WeakCurlCurl", alpha_coef_name)),
         dh_curl_var_dt, NewKernel("CurlCurl", dtalpha_coef_name)),
       dh_curl_var_dt, NewKernel("VectorFEMass", beta_coef_name))

\* CurlCurlEquationSystem::addKernels: the variable is registered, then
\* its kernels are filed.
CurlCurl_addKernels_NoVariable(e) == CurlCurl_FileKernels(e)
CurlCurl_addKernels(e) ==
  CurlCurl_FileKernels(AddTrialVariableNameIfMissing(e, h_curl_var_name))

\* NamedFieldsMap::Has(name).
Registry_Has(map, name) == name \in DOMAIN map

\* NamedFieldsMap::Register(name, field, own_data): the entry of that name
\* is set to the field; an entry the map held under the name is replaced.
Register(map, name, field) ==
  [n \in DOMAIN map \cup {name} |-> IF n = name THEN field ELSE map[n]]

\* Register for each of the names, in order.
RECURSIVE RegisterAll(_, _, _)
RegisterAll(map, names, field) ==
  IF names = <<>> THEN map
  ELSE RegisterAll(Register(map, Head(names), field), Tail(names), field)

\* The names of a set as a sequence.
RECURSIVE SeqOf(_)
SeqOf(S) ==
  IF S = {} THEN <<>>
  ELSE LET x == CHOOSE y \in S : TRUE IN <<x>> \o SeqOf(S \ {x})

\* TimeDomainProblemBuilder::RegisterGridFunctions: a time derivative is
\* registered for every grid function the registry holds.
TimeDomain_RegisterGridFunctions(gfs) ==
  RegisterAll(gfs, SeqOf({GetTimeDerivativeName(name) : name \in DOMAIN gfs}),
              "derivative")

\* HCurlFormulation::RegisterGridFunctions: the state variable is built from
\* defaults when the user gave none, then the time derivatives are added.
HCurl_RegisterGridFunctions_DerivativesFirst(gfs) ==
  LET withDerivatives == TimeDomain_RegisterGridFunctions(gfs)
  IN IF ~Registry_Has(withDerivatives, h_curl_var_name)
     THEN Register(withDerivatives, h_curl_var_name, "default")
     ELSE withDerivatives
HCurl_RegisterGridFunctions(gfs) ==
  LET withDefault == IF ~Registry_Has(gfs, h_curl_var_name)
                     THEN Register(gfs, h_curl_var_name, "default")
                     ELSE gfs
  IN TimeDomain_RegisterGridFunctions(withDefault)

\* NamedFieldsMap::GetPtr(name, nullable): the entry of that name; when
\* there is none, null if nullable and an abort of the run if not.
GetPtr(map, name, nullable) ==
  IF name \in map THEN name
  ELSE IF nullable THEN "null" ELSE "abort"

\* MixedVectorGradientKernel::Init: the coefficient is looked up by name.
MixedVectorGradientKernel_Init_Nullable(k, coefs) ==
  [k EXCEPT !.coef = GetPtr(coefs, k.coef_name, TRUE)]
MixedVectorGradientKernel_Init(k, coefs) ==
  [k EXCEPT !.coef = GetPtr(coefs, k.coef_name, FALSE)]

\* Init of the kernels CurlCurlEquationSystem::addKernels constructs.
FormulationKernel_Init(k, coefs) ==
  [k EXCEPT !.coef = GetPtr(coefs, k.coef_name, FALSE)]

Kernel_Init(k, coefs) ==
  IF k.type = "MixedVectorGradient"
  THEN MixedVectorGradientKernel_Init(k, coefs)
  ELSE FormulationKernel_Init(k, coefs)

\* The kernels' Init in registration order; the first abort ends the run
\* and leaves the later kernels as constructed.
RECURSIVE InitKernels(_, _, _)
InitKernels(ks, coefs, i) ==
  IF i > Len(ks) THEN ks
  ELSE LET k == Kernel_Init(ks[i].kernel, coefs)
           done == [ks EXCEPT ![i].kernel = k]
       IN IF k.coef = "abort" THEN done
          ELSE InitKernels(done, coefs, i + 1)

\* The name whose lookup aborted the kernels' Init, "" if none did.
AbortedOn(ks) ==
  IF \E i \in 1..Len(ks) : ks[i].kernel.coef = "abort"
  THEN LET i == CHOOSE j \in 1..Len(ks) : ks[j].kernel.coef = "abort"
       IN ks[i].kernel.coef_name
  ELSE ""

\* TimeDependentEquationSystem::Init: every trial variable is looked up in
\* the grid functions, then the kernels are initialised.  The result is the
\* equation system and the diagnostic of the abort, "" if there was none.
TimeDependent_Init(e, gfs, coefs) ==
  IF \E i \in 1..Len(e.trial_var_names) :
       ~Registry_Has(gfs, e.trial_var_names[i])
  THEN LET i == CHOOSE j \in 1..Len(e.trial_var_names) :
                  /\ ~Registry_Has(gfs, e.trial_var_names[j])
                  /\ \A l \in 1..(j - 1) :
                       Registry_Has(gfs, e.trial_var_names[l])
       IN [es |-> e, coefs |-> coefs, abort |-> e.trial_var_names[i]]
  ELSE LET ks == InitKernels(e.kernels, coefs, 1)
       IN [es |-> [e EXCEPT !.kernels = ks], coefs |-> coefs,
           abort |-> AbortedOn(ks)]

\* CurlCurlEquationSystem::Init: the coefficient scaled by the time step
\* is registered, then the equation system is initialised.
CurlCurl_Init_RegisterLast(e, gfs, coefs) ==
  LET r == TimeDependent_Init(e, gfs, coefs)
  IN [r EXCEPT !.coefs = @ \cup {dtalpha_coef_name}]
CurlCurl_Init(e, gfs, coefs) ==
  TimeDependent_Init(e, gfs, coefs \cup {dtalpha_coef_name})

\* MixedVectorGradientKernel::Apply: one domain integrator with the
\* kernel's coefficient is added to the form.
MixedVectorGradientKernel_Apply_Twice(form, bucket, k) ==
  form \o << [bucket |-> bucket, type |-> k.type, coef |-> k.coef],
             [bucket |-> bucket, type |-> k.type, coef |-> k.coef] >>
MixedVectorGradientKernel_Apply(form, bucket, k) ==
  Append(form, [bucket |-> bucket, type |-> k.type, coef |-> k.coef])

\* Apply of the kernels CurlCurlEquationSystem::addKernels constructs.
FormulationKernel_Apply(form, bucket, k) ==
  Append(form, [bucket |-> bucket, type |-> k.type, coef |-> k.coef])

Kernel_Apply(form, bucket, k) ==
  IF k.type = "MixedVectorGradient"
  THEN MixedVectorGradientKernel_Apply(form, bucket, k)
  ELSE FormulationKernel_Apply(form, bucket, k)

\* Every kernel applied, in registration order, to the forms handed in.
RECURSIVE ApplyKernels(_, _, _)
ApplyKernels(form, ks, i) ==
  IF i > Len(ks) THEN form
  ELSE ApplyKernels(Kernel_Apply(form, ks[i].bucket, ks[i].kernel), ks, i + 1)

\* The equation system building its forms: new, empty forms replace the
\* old ones and every kernel is applied to them.
EquationSystem_BuildForms(e) == ApplyKernels(<<>>, e.kernels, 1)

\* No sources are being set up.
\* No process is in calcFlux.
FluxIdle ==
  /\ fpc = [p \in 1..NumProcs |-> "idle"]
  /\ local = [p \in 1..NumProcs |-> [left |-> 0, flux |-> 0, skips |-> {}]]
  /\ calls = [p \in 1..NumProcs |-> 0]
  /\ reductions = [p \in 1..NumProcs |-> 0]
  /\ total_flux = [p \in 1..NumProcs |-> 0]
  /\ arrived = {}
  /\ reduced = 0

SourcesIdle ==
  /\ sources = <<>>
  /\ linear_form = <<>>
  /\ J_parent = <<>>
  /\ V_parent = <<>>
  /\ fespaces = {}
  /\ applied = {}
  /\ postprocessed = {}
  /\ mesh = <<>>
  /\ I_now = 0
  /\ FluxIdle

\* No problem is being built.
BuildIdle ==
  /\ es = EquationSystem_New
  /\ added = <<>>
  /\ phase = "idle"
  /\ gridfunctions = <<>>
  /\ registrant = "none"
  /\ coefficients = {}
  /\ forms = <<>>
  /\ passes = 0
  /\ abort = ""

\* No operator is being stepped.
StepIdle ==
  /\ kind = "none" /\ cfg = <<>> /\ op = <<>> /\ X = <<>> /\ dX_dt = <<>>
  /\ t = 0 /\ log = <<>> /\ conv = <<>> /\ solved = <<>> /\ X_entry = <<>>

\* The problem builder with the equation system constructed and the grid
\* functions and coefficients the user supplied.
BuildInit ==
  /\ StepIdle
  /\ es = EquationSystem_New
  /\ added = <<>>
  /\ phase = "construct"
  /\ gridfunctions \in {[n \in S |-> "user"] : S \in UserGridFunctions}
  /\ registrant = "none"
  /\ coefficients \in UserCoefficients
  /\ forms = <<>>
  /\ passes = 0
  /\ abort = ""
  /\ SourcesIdle

\* The user adds a kernel through the problem builder.
AddKernel ==
  /\ phase \in {"construct", "gridfunctions", "coefficients", "kernels"}
  /\ Cardinality({k \in 1..Len(es.kernels) :
                    es.kernels[k].kernel.type = "MixedVectorGradient"})
       < MaxKernels
  /\ \E var_name \in VarNames, coef_name \in CoefNames :
       /\ es' = Builder_AddKernel(es, var_name,
                                  NewKernel("MixedVectorGradient", coef_name))
       /\ added' = Append(added, var_name)
  /\ UNCHANGED <<phase, gridfunctions, coefficients, forms, passes, abort,
                 registrant, stepVars, srcVars>>

RegisterGridFunctions ==
  /\ phase = "construct"
  /\ gridfunctions' = HCurl_RegisterGridFunctions(gridfunctions)
  /\ phase' = "gridfunctions"
  /\ UNCHANGED <<es, added, coefficients, forms, passes, abort, registrant, stepVars, srcVars>>

\* HCurlFormulation::RegisterCoefficients: both coefficients must be there.
RegisterCoefficients ==
  /\ phase = "gridfunctions"
  /\ IF alpha_coef_name \notin coefficients
     THEN phase' = "aborted" /\ abort' = alpha_coef_name
     ELSE IF beta_coef_name \notin coefficients
     THEN phase' = "aborted" /\ abort' = beta_coef_name
     ELSE phase' = "coefficients" /\ abort' = abort
  /\ UNCHANGED <<es, added, gridfunctions, coefficients, forms, passes,
                 registrant, stepVars, srcVars>>

addKernels ==
  /\ phase = "coefficients"
  /\ es' = CurlCurl_addKernels(es)
  /\ added' = Append(added, h_curl_var_name)
  /\ phase' = "kernels"
  /\ UNCHANGED <<gridfunctions, coefficients, forms, passes, abort,
                 registrant, stepVars, srcVars>>

EquationSystem_Init ==
  /\ phase = "kernels"
  /\ LET r == CurlCurl_Init(es, gridfunctions, coefficients)
     IN /\ es' = r.es
        /\ coefficients' = r.coefs
        /\ abort' = r.abort
        /\ phase' = IF r.abort = "" THEN "initialised" ELSE "aborted"
  /\ UNCHANGED <<added, gridfunctions, forms, passes, registrant, stepVars, srcVars>>

\* One assembly pass of the initialised equation system.
BuildForms ==
  /\ phase = "initialised"
  /\ passes < MaxPasses
  /\ forms' = EquationSystem_BuildForms(es)
  /\ passes' = passes + 1
  /\ UNCHANGED <<es, added, phase, gridfunctions, coefficients, abort,
                 registrant, stepVars, srcVars>>

\* AVSolver::SetVariableNames.
AVSolver_VariableNames == <<"magnetic_vector_potential", "electric_potential">>

\* HCurlSolver::SetVariableNames and the names RegisterVariables adds.
HCurlSolver_VariableNames == <<"h_curl_var", "curl h_curl_var", "du">>

\* AVSolver::Init and HCurlSolver::RegisterVariables: the solver registers
\* its variables in the registry it was constructed with.
Solver_RegisterVariables(gfs, s) ==
  RegisterAll(gfs, IF s = "AVSolver" THEN AVSolver_VariableNames
                   ELSE HCurlSolver_VariableNames, s)

\* Instead of a formulation being built, a solver is constructed and
\* initialised on the registry the user supplied.
RegisterVariables ==
  /\ phase = "construct"
  /\ \E s \in {"AVSolver", "HCurlSolver"} :
       /\ registrant' = s
       /\ gridfunctions' = Solver_RegisterVariables(gridfunctions, s)
  /\ phase' = "solver"
  /\ UNCHANGED <<es, added, coefficients, forms, passes, abort, stepVars, srcVars>>

BuildNext ==
  \/ AddKernel
  \/ RegisterGridFunctions
  \/ RegisterCoefficients
  \/ addKernels
  \/ EquationSystem_Init
  \/ BuildForms
  \/ RegisterVariables

SpecBuild == BuildInit /\ [][BuildNext]_vars

\* --------------------------------------------------------------- sources
\* The names the sources and the auxiliary solver are constructed with.
J_gf_name_ == "J"
V_gf_name_ == "Phi"
I_coef_name_ == "I"
hcurl_fespace_name_ == "HCurl"
SourceTypes == {"OpenCoilSolver", "ClosedCoilSolver",
                "ScaledVectorGridFunctionAux"}

\* The values the total current takes over a run.
CurrentValues == {0, 2}

\* A double: a finite value, or the result of a division by zero.
Num(v) == [finite |-> TRUE, v |-> v]
NotFinite == [finite |-> FALSE, v |-> 0]
Plus(a, b) == IF a.finite /\ b.finite THEN Num(a.v + b.v) ELSE NotFinite
Times(a, c) == IF a.finite THEN Num(a.v * c) ELSE NotFinite
Over(a, c) == IF a.finite /\ c # 0 THEN Num(a.v \div c) ELSE NotFinite

\* The elements of the mesh, one true DOF on each, and the elements whose
\* domain attribute is one of `doms`.
Elements == 1..MaxDofs
InDomain(m, doms) == {e \in Elements : m.attributes[e] \in doms}

\* The largest of a non-empty sequence of attributes.
Max(attrs) ==
  CHOOSE a \in {attrs[i] : i \in 1..Len(attrs)} :
    \A i \in 1..Len(attrs) : attrs[i] <= a

\* NamedFieldsMap::Get(name): the entry of that name, null if there is none.
Get(names, name) == IF name \in names THEN name ELSE "null"

\* A source or auxiliary solver as constructed: nothing resolved, no child
\* mesh, no child fields.
NewSource(type, coil_dom, electrodes) ==
  [type |-> type, coil_domains_ |-> coil_dom, elec_attrs_ |-> electrodes,
   ref_face_ |-> electrodes[1],
   HCurlFESpace_parent_ |-> "null", J_parent_ |-> "null",
   V_parent_ |-> "null", Itotal_ |-> "null",
   dom |-> {}, J_ |-> NotFinite, V_ |-> NotFinite,
   old_dom_attrs |-> <<>>, new_domain_attr_ |-> 0, submesh_domains_ |-> <<>>,
   fespaces_ |-> <<>>, bc_maps_ |-> <<>>, coefs_ |-> <<>>,
   ocs_params_ |-> <<>>, opencoil_ |-> <<>>,
   a_mat |-> "null", solver |-> "null", mixed_mat |-> NotFinite,
   ready |-> FALSE, destroyed |-> FALSE, deleted |-> <<>>]

\* OpenCoilSolver::setRefFace.
setRefFace(s, face) == [s EXCEPT !.ref_face_ = face]

\* The result of an Init: the object, the mesh, and the name whose absence
\* aborted the run, "" if Init returned.
Returned(s, m) == [source |-> s, mesh |-> m, abort |-> ""]
Aborted(s, m, name) == [source |-> s, mesh |-> m, abort |-> name]

\* OpenCoilSolver::Init: the current and the current density must be
\* there; a missing potential is reported and left null.  The child mesh
\* is cut out of the parent over the coil's domains and the child fields
\* are solved for and normalised to unit flux through the reference face
\* (the flux of the solution taken to be non-zero).
OpenCoilSolver_Init(s, m, gfs, coefs) ==
  LET s1 == [s EXCEPT !.Itotal_ = Get(coefs, I_coef_name_)]
      s2 == [s1 EXCEPT !.J_parent_ = Get(gfs, J_gf_name_)]
      s3 == [s2 EXCEPT !.V_parent_ = Get(gfs, V_gf_name_)]
  IN IF s1.Itotal_ = "null" THEN Aborted(s1, m, I_coef_name_)
     ELSE IF s2.J_parent_ = "null" THEN Aborted(s2, m, J_gf_name_)
     ELSE Returned([s3 EXCEPT !.dom = InDomain(m, s.coil_domains_),
                              !.J_ = Num(1), !.V_ = Num(1)], m)

\* ClosedCoilSolver::makeWedge: the domain attributes are saved, the coil
\* elements next to the electrode are given a new attribute and their far
\* faces become the second electrode.
makeWedge(s, m) ==
  LET saved == s.old_dom_attrs \o m.attributes
      new_domain_attr_ == Max(m.attributes) + 1
      second == Max(m.bdr_attributes) + 1
      coil == InDomain(m, s.coil_domains_)
      wedge_els == IF coil = {} THEN {}
                   ELSE {CHOOSE e \in coil : \A o \in coil : e <= o}
  IN [source |-> [s EXCEPT !.old_dom_attrs = saved,
                           !.new_domain_attr_ = new_domain_attr_,
                           !.elec_attrs_ = <<@[1], second>>,
                           !.submesh_domains_ =
                               @ \o <<s.coil_domains_, {new_domain_attr_}>>],
      mesh |-> [attributes |->
                  [e \in Elements |-> IF e \in wedge_els
                                      THEN new_domain_attr_
                                      ELSE m.attributes[e]],
                bdr_attributes |->
                  IF wedge_els = {} THEN m.bdr_attributes
                  ELSE Append(m.bdr_attributes, second)]]

\* ClosedCoilSolver::restoreAttributes: every element is given the saved
\* attribute of its index.
restoreAttributes_Skip(s, m) == m
restoreAttributes(s, m) ==
  [m EXCEPT !.attributes = [e \in Elements |-> s.old_dom_attrs[e]]]

\* The child objects solveOpenCoils has allocated after `n` rounds of its
\* loop, in a vector resizeChildVectors gave two null entries.
ChildVector(name, n) ==
  [i \in 1..2 |-> IF i <= n THEN name \o (IF i = 1 THEN "[0]" ELSE "[1]")
                  ELSE "null"]
WithChildren(s, n) ==
  [s EXCEPT !.fespaces_ = ChildVector("fespaces_", n),
            !.bc_maps_ = ChildVector("bc_maps_", n),
            !.coefs_ = ChildVector("coefs_", n),
            !.ocs_params_ = ChildVector("ocs_params_", n)]

\* ClosedCoilSolver::solveOpenCoils: the two open coils of the cut coil
\* are constructed, the second with the electrodes swapped and the
\* reference face set, and initialised in turn.
solveOpenCoils_NoSwapBack(s, m, gfs, coefs) ==
  LET oc1 == OpenCoilSolver_Init(
               NewSource("OpenCoilSolver", s.submesh_domains_[1],
                         s.elec_attrs_),
               m, gfs, coefs)
      swapped == <<s.elec_attrs_[2], s.elec_attrs_[1]>>
      oc2 == OpenCoilSolver_Init(
               setRefFace(NewSource("OpenCoilSolver", s.submesh_domains_[2],
                                    swapped),
                          swapped[2]),
               m, gfs, coefs)
      s1 == [WithChildren(s, 1) EXCEPT !.opencoil_ = <<oc1.source>>]
      s2 == [WithChildren(s, 2) EXCEPT
               !.opencoil_ = <<oc1.source, oc2.source>>,
               !.elec_attrs_ = swapped]
  IN IF oc1.abort # "" THEN Aborted(s1, m, oc1.abort)
     ELSE IF oc2.abort # "" THEN Aborted(s2, m, oc2.abort)
     ELSE Returned(s2, m)
solveOpenCoils(s, m, gfs, coefs) ==
  LET oc1 == OpenCoilSolver_Init(
               NewSource("OpenCoilSolver", s.submesh_domains_[1],
                         s.elec_attrs_),
               m, gfs, coefs)
      swapped == <<s.elec_attrs_[2], s.elec_attrs_[1]>>
      oc2 == OpenCoilSolver_Init(
               setRefFace(NewSource("OpenCoilSolver", s.submesh_domains_[2],
                                    swapped),
                          swapped[2]),
               m, gfs, coefs)
      s1 == [WithChildren(s, 1) EXCEPT !.opencoil_ = <<oc1.source>>]
      s2 == [WithChildren(s, 2) EXCEPT
               !.opencoil_ = <<oc1.source, oc2.source>>,
               !.elec_attrs_ = swapped]
  IN IF oc1.abort # "" THEN Aborted(s1, m, oc1.abort)
     ELSE IF oc2.abort # "" THEN Aborted(s2, m, oc2.abort)
     ELSE Returned([s2 EXCEPT !.elec_attrs_ = <<swapped[2], swapped[1]>>], m)

\* ClosedCoilSolver::Init: the space and the current density must be
\* there; a missing current is replaced by a unit current.  The wedge is
\* cut, the open coils are solved and the attributes are restored.
ClosedCoilSolver_Init(s, m, gfs, fes, coefs) ==
  LET s1 == [s EXCEPT !.HCurlFESpace_parent_ = Get(fes, hcurl_fespace_name_)]
      s2 == [s1 EXCEPT !.J_parent_ = Get(gfs, J_gf_name_)]
      I == Get(coefs, I_coef_name_)
      s3 == [s2 EXCEPT !.Itotal_ = IF I = "null" THEN "unit" ELSE I]
      w == makeWedge(s3, m)
      r == solveOpenCoils(w.source, w.mesh, gfs, coefs)
  IN IF s1.HCurlFESpace_parent_ = "null"
     THEN Aborted(s1, m, hcurl_fespace_name_)
     ELSE IF s2.J_parent_ = "null" THEN Aborted(s2, m, J_gf_name_)
     ELSE IF r.abort # "" THEN r
     ELSE Returned(r.source, restoreAttributes(r.source, r.mesh))

\* ScaledVectorGridFunctionAux::Init: the input field, the scaled field
\* and the coefficient must all be there; the mass matrix is assembled
\* and the solver is built on it.
ScaledVectorGridFunctionAux_Init(s, m, gfs, coefs) ==
  LET s1 == [s EXCEPT !.J_parent_ = Get(gfs, J_gf_name_)]
      s2 == [s1 EXCEPT !.V_parent_ = Get(gfs, V_gf_name_)]
      s3 == [s2 EXCEPT !.Itotal_ = Get(coefs, I_coef_name_)]
  IN IF s1.J_parent_ = "null" THEN Aborted(s1, m, J_gf_name_)
     ELSE IF s2.V_parent_ = "null" THEN Aborted(s2, m, V_gf_name_)
     ELSE IF s3.Itotal_ = "null" THEN Aborted(s3, m, I_coef_name_)
     ELSE Returned([s3 EXCEPT !.a_mat = "Init", !.solver = "Init"], m)

\* The constructor calls of the problem: a coil over the domain of
\* attribute 1, an open coil between the two boundary attributes of the
\* mesh, a closed coil cut at electrode_face.
electrode_face == 1
Construct(type) ==
  IF type = "OpenCoilSolver" THEN NewSource(type, {1}, <<1, 2>>)
  ELSE IF type = "ClosedCoilSolver"
  THEN NewSource(type, {1}, <<electrode_face, 0>>)
  ELSE NewSource(type, {}, <<0, 0>>)

Init_Of(s, m, gfs, fes, coefs) ==
  LET r == IF s.type = "OpenCoilSolver"
           THEN OpenCoilSolver_Init(s, m, gfs, coefs)
           ELSE IF s.type = "ClosedCoilSolver"
           THEN ClosedCoilSolver_Init(s, m, gfs, fes, coefs)
           ELSE ScaledVectorGridFunctionAux_Init(s, m, gfs, coefs)
  IN [r EXCEPT !.source.ready = (r.abort = "")]

\* Itotal_->Eval: the total current the coefficient gives at this time.
Eval(coef, I) == IF coef = "unit" THEN 1 ELSE I

\* OpenCoilSolver::Apply: the child fields are scaled by the total
\* current, transferred into the parent fields on the coil's domain and
\* scaled back; the parent current density is added to the linear form.
OpenCoilSolver_Apply(s, f, I_t) ==
  LET I == Eval(s.Itotal_, I_t)
      J_scaled == Times(s.J_, I)
      V_scaled == Times(s.V_, I)
      J == [d \in 1..MaxDofs |-> IF d \in s.dom THEN J_scaled ELSE f.J[d]]
      V == IF s.V_parent_ = "null" THEN f.V
           ELSE [d \in 1..MaxDofs |->
                   IF d \in s.dom THEN V_scaled ELSE f.V[d]]
  IN [source |-> [s EXCEPT !.J_ = Over(J_scaled, I),
                           !.V_ = IF s.V_parent_ = "null" THEN @
                                  ELSE Over(V_scaled, I)],
      lf |-> [d \in 1..MaxDofs |-> Plus(f.lf[d], J[d])],
      J |-> J, V |-> V]

\* ClosedCoilSolver::Apply: both open coils are applied, the linear form
\* is set to zero and the parent grid function is added to it.
ClosedCoilSolver_Apply(s, f, I_t) ==
  LET f1 == OpenCoilSolver_Apply(s.opencoil_[1], f, I_t)
      f2 == OpenCoilSolver_Apply(s.opencoil_[2],
                                 [lf |-> f1.lf, J |-> f1.J, V |-> f1.V], I_t)
  IN [source |-> [s EXCEPT !.opencoil_ = <<f1.source, f2.source>>],
      lf |-> [d \in 1..MaxDofs |-> Plus(Num(0), f2.J[d])],
      J |-> f2.J, V |-> f2.V]

Apply_Of(s, f, I_t) ==
  IF s.type = "OpenCoilSolver" THEN OpenCoilSolver_Apply(s, f, I_t)
  ELSE ClosedCoilSolver_Apply(s, f, I_t)

\* ScaledVectorGridFunctionAux::Solve: the mixed form is reassembled with
\* the coefficient, the input field is read, and the scaled field solves
\* the mass system for aConst times their product.
aConst == 1
ScaledVectorGridFunctionAux_Solve_AssembleOnce(s, input, I_t) ==
  LET mixed_mat == IF s.mixed_mat.finite THEN s.mixed_mat ELSE Num(I_t)
  IN [source |-> [s EXCEPT !.mixed_mat = mixed_mat],
      scaled |-> [d \in 1..MaxDofs |->
                    IF mixed_mat.finite
                    THEN Times(input[d], mixed_mat.v * aConst)
                    ELSE NotFinite]]
ScaledVectorGridFunctionAux_Solve(s, input, I_t) ==
  LET mixed_mat == Num(I_t)
  IN [source |-> [s EXCEPT !.mixed_mat = mixed_mat],
      scaled |-> [d \in 1..MaxDofs |->
                    IF mixed_mat.finite
                    THEN Times(input[d], mixed_mat.v * aConst)
                    ELSE NotFinite]]

\* The objects each registry of an open coil was given to own, by setBCs
\* and SPSCurrent.
Owned ==
  [gridfunctions_ |-> <<"J_", "V_">>,
   fespaces_ |-> <<"HCurlFESpace_", "H1FESpace_">>,
   bc_maps_ |-> <<"high_DBC_", "low_DBC_">>,
   coefs_ |-> <<>>]

\* ~OpenCoilSolver: every member pointer is deleted in turn; deleting a
\* registry deletes the objects it owns.
OpenCoilSolver_Destroy(s) ==
  [s EXCEPT !.destroyed = TRUE,
            !.deleted =
               <<"coef1_", "coef0_", "mesh_", "H1_Collection_",
                 "HCurl_Collection_", "H1FESpace_", "HCurlFESpace_",
                 "J_", "V_", "high_src_", "low_src_", "sps_", "sps_params_",
                 "current_solver_options_">>
               \o <<"gridfunctions_">> \o Owned.gridfunctions_
               \o <<"fespaces_">> \o Owned.fespaces_
               \o <<"bc_maps_">> \o Owned.bc_maps_
               \o <<"coefs_">> \o Owned.coefs_
               \o <<"high_DBC_", "low_DBC_">>]

\* deleteAndClear(v): the vector is passed by value; every non-null
\* pointer of the copy is deleted and the copy is cleared.  `v` is the
\* copy and `argument` the caller's vector when the function returns.
deleteAndClear(v) ==
  [deleted |-> SelectSeq(v, LAMBDA p : p # "null"),
   v |-> <<>>, argument |-> v]

\* ~ClosedCoilSolver: the two coefficients are deleted and the child
\* vectors are handed to deleteAndClear; deleting an open coil runs its
\* destructor.
ClosedCoilSolver_Destroy(s) ==
  LET f == deleteAndClear(s.fespaces_)
      b == deleteAndClear(s.bc_maps_)
      c == deleteAndClear(s.coefs_)
      p == deleteAndClear(s.ocs_params_)
      o == deleteAndClear(ChildVector("opencoil_", Len(s.opencoil_)))
  IN [s EXCEPT !.destroyed = TRUE,
               !.deleted = <<"coef1_", "coef0_">> \o f.deleted \o b.deleted
                           \o c.deleted \o p.deleted \o o.deleted,
               !.fespaces_ = f.argument, !.bc_maps_ = b.argument,
               !.coefs_ = c.argument, !.ocs_params_ = p.argument,
               !.opencoil_ = [i \in 1..Len(o.argument) |->
                                OpenCoilSolver_Destroy(s.opencoil_[i])]]

Destroy_Of(s) ==
  IF s.type = "OpenCoilSolver" THEN OpenCoilSolver_Destroy(s)
  ELSE ClosedCoilSolver_Destroy(s)

\* An object is deleted more than once.
DeletedTwice(s) ==
  \E i, j \in 1..Len(s.deleted) : i # j /\ s.deleted[i] = s.deleted[j]

\* The registries as the user supplied them over a mesh of coil
\* (attribute 1) and air (attribute 2) elements; no source initialised.
SourcesInit ==
  /\ StepIdle
  /\ FluxIdle
  /\ es = EquationSystem_New /\ added = <<>> /\ forms = <<>>
  /\ registrant = "none"
  /\ phase = "sources"
  /\ abort = ""
  /\ passes = 0
  /\ gridfunctions \in {[n \in S |-> "user"] : S \in SUBSET {J_gf_name_, V_gf_name_}}
  /\ coefficients \in SUBSET {I_coef_name_}
  /\ fespaces \in SUBSET {hcurl_fespace_name_}
  /\ mesh \in [attributes : [Elements -> {1, 2}], bdr_attributes : {<<1, 2>>}]
  /\ sources = <<>>
  /\ linear_form = ConstVec(MaxDofs, Num(0))
  /\ J_parent = ConstVec(MaxDofs, Num(0))
  /\ V_parent = ConstVec(MaxDofs, Num(0))
  /\ I_now = 0
  /\ applied = {}
  /\ postprocessed = {}

\* A source or an auxiliary solver is constructed and initialised.
Source_Init ==
  /\ phase = "sources"
  /\ Len(sources) < MaxSources
  /\ \E type \in SourceTypes :
       LET r == Init_Of(Construct(type), mesh, DOMAIN gridfunctions,
                        fespaces, coefficients)
       IN /\ sources' = Append(sources, r.source)
          /\ mesh' = r.mesh
          /\ abort' = r.abort
          /\ phase' = IF r.abort = "" THEN phase ELSE "aborted"
  /\ UNCHANGED <<es, added, forms, registrant, passes, gridfunctions,
                 coefficients, fespaces, linear_form, J_parent, V_parent,
                 I_now, applied, postprocessed, stepVars, fluxVars>>

\* Init is called again on the source initialised last.
Source_Reinit ==
  /\ phase = "sources"
  /\ sources # <<>>
  /\ Len(sources[Len(sources)].old_dom_attrs) < MaxInits * MaxDofs
  /\ LET i == Len(sources)
         r == Init_Of(sources[i], mesh, DOMAIN gridfunctions, fespaces,
                      coefficients)
     IN /\ sources' = [sources EXCEPT ![i] = r.source]
        /\ mesh' = r.mesh
        /\ abort' = r.abort
        /\ phase' = IF r.abort = "" THEN phase ELSE "aborted"
  /\ UNCHANGED <<es, added, forms, registrant, passes, gridfunctions,
                 coefficients, fespaces, linear_form, J_parent, V_parent,
                 I_now, applied, postprocessed, stepVars, fluxVars>>

\* The coils among the sources, and the auxiliary solvers.
Coils ==
  {i \in 1..Len(sources) : sources[i].type # "ScaledVectorGridFunctionAux"}
AuxSolvers ==
  {i \in 1..Len(sources) : sources[i].type = "ScaledVectorGridFunctionAux"}

\* The pass before it complete, an assembly pass begins at a new time:
\* the total current has its value of that time and the linear form
\* holds the kernels' terms.
Assemble ==
  /\ \/ phase = "sources"
     \/ phase = "assembly" /\ Coils \subseteq applied
                           /\ AuxSolvers \subseteq postprocessed
  /\ passes < MaxPasses
  /\ phase' = "assembly"
  /\ passes' = passes + 1
  /\ \E I \in CurrentValues : I_now' = I
  /\ linear_form' = ConstVec(MaxDofs, Num(1))
  /\ applied' = {}
  /\ postprocessed' = {}
  /\ UNCHANGED <<es, added, forms, registrant, abort, gridfunctions,
                 coefficients, fespaces, sources, mesh, J_parent, V_parent,
                 stepVars, fluxVars>>

\* The next source, in the order of the container, is applied to the
\* linear form of the pass.
Source_Apply ==
  /\ phase = "assembly"
  /\ \E i \in Coils \ applied :
       /\ \A k \in Coils \ applied : i <= k
       /\ LET f == Apply_Of(sources[i],
                            [lf |-> linear_form, J |-> J_parent,
                             V |-> V_parent], I_now)
          IN /\ linear_form' = f.lf /\ J_parent' = f.J /\ V_parent' = f.V
             /\ sources' = [sources EXCEPT ![i] = f.source]
       /\ applied' = applied \cup {i}
  /\ UNCHANGED <<es, added, forms, registrant, abort, gridfunctions, phase,
                 passes, coefficients, fespaces, mesh, I_now, postprocessed,
                 stepVars, fluxVars>>

\* The sources applied, the next auxiliary solver is solved at the time
\* of the pass.
Aux_Solve ==
  /\ phase = "assembly"
  /\ Coils \subseteq applied
  /\ \E i \in AuxSolvers \ postprocessed :
       /\ \A k \in AuxSolvers \ postprocessed : i <= k
       /\ LET r == ScaledVectorGridFunctionAux_Solve(sources[i], J_parent,
                                                     I_now)
          IN /\ V_parent' = r.scaled
             /\ sources' = [sources EXCEPT ![i] = r.source]
       /\ postprocessed' = postprocessed \cup {i}
  /\ UNCHANGED <<es, added, forms, registrant, abort, gridfunctions, phase,
                 passes, coefficients, fespaces, mesh, I_now, linear_form,
                 J_parent, applied, stepVars, fluxVars>>

\* Between two passes the problem is torn down: its coils are destroyed.
\* Deleting an object a second time is undefined: the run goes on or ends
\* there.
Source_Destroy ==
  /\ \/ phase = "sources"
     \/ phase = "assembly" /\ Coils \subseteq applied
                           /\ AuxSolvers \subseteq postprocessed
  /\ Coils # {}
  /\ sources' = [i \in 1..Len(sources) |->
                   IF sources[i].type = "ScaledVectorGridFunctionAux"
                   THEN sources[i] ELSE Destroy_Of(sources[i])]
  /\ \/ phase' = "teardown" /\ abort' = abort
     \/ /\ \E i \in 1..Len(sources) :
             \/ DeletedTwice(sources'[i])
             \/ \E k \in 1..Len(sources'[i].opencoil_) :
                  DeletedTwice(sources'[i].opencoil_[k])
        /\ phase' = "aborted" /\ abort' = "double free"
  /\ UNCHANGED <<es, added, forms, registrant, gridfunctions, passes,
                 coefficients, fespaces, mesh, I_now, linear_form, J_parent,
                 V_parent, applied, postprocessed, stepVars, fluxVars>>

SourcesNext ==
  \/ Source_Init
  \/ Source_Reinit
  \/ Assemble
  \/ Source_Apply
  \/ Aux_Solve
  \/ Source_Destroy

SpecSources == SourcesInit /\ [][SourcesNext]_vars

\* ------------------------------------------------------------------ calcFlux
Procs == 1..NumProcs

\* A boundary element a process owns: its attribute and its face
\* transformation, which is null for some faces.
Faces == [attr : {1, 2}, FTr : {"null", "face"}]

\* One round of calcFlux's loop: a face of another attribute is skipped,
\* a face without a transformation is skipped, any other is integrated.
calcFlux_Face(loc, face, face_attr) ==
  IF face.attr # face_attr
  THEN [loc EXCEPT !.skips = @ \cup {"attribute"}]
  ELSE IF face.FTr = "null"
  THEN [loc EXCEPT !.skips = @ \cup {"null"}]
  ELSE [loc EXCEPT !.flux = @ + 1]

\* What calcFlux does when its loop has ended.
calcFlux_AfterLoop_SkipWhenEmpty(loc) ==
  IF loc.flux = 0 THEN "return" ELSE "MPI_Allreduce"
calcFlux_AfterLoop(loc) == "MPI_Allreduce"

\* The locals of a process outside calcFlux.
NoLocal == [left |-> 0, flux |-> 0, skips |-> {}]

\* No process has called calcFlux.
FluxInit ==
  /\ StepIdle
  /\ es = EquationSystem_New /\ added = <<>> /\ forms = <<>>
  /\ registrant = "none"
  /\ phase = "flux"
  /\ abort = ""
  /\ passes = 0
  /\ gridfunctions = <<>>
  /\ coefficients = {}
  /\ SourcesIdle

\* A process calls calcFlux on a mesh of which it owns some boundary
\* elements, possibly none.
Flux_Call(p) ==
  /\ phase = "flux"
  /\ fpc[p] = "idle"
  /\ calls[p] < MaxCalls
  /\ calls' = [calls EXCEPT ![p] = @ + 1]
  /\ fpc' = [fpc EXCEPT ![p] = "loop"]
  /\ \E n \in 0..MaxFaces : local' = [local EXCEPT ![p] = [NoLocal EXCEPT !.left = n]]
  /\ UNCHANGED <<reductions, total_flux, arrived, reduced>>

\* The loop of calcFlux visits the next boundary element.
Flux_Face(p) ==
  /\ fpc[p] = "loop"
  /\ local[p].left > 0
  /\ \E face \in Faces :
       local' = [local EXCEPT
                   ![p] = [calcFlux_Face(local[p], face, electrode_face)
                             EXCEPT !.left = @ - 1]]
  /\ UNCHANGED <<fpc, calls, reductions, total_flux, arrived, reduced>>

\* The loop has ended: the process enters the reduction.  The reduction
\* completes, with the sum of the contributions, when every process of
\* the communicator has entered it.
Flux_Reduce(p) ==
  /\ fpc[p] = "loop"
  /\ local[p].left = 0
  /\ IF calcFlux_AfterLoop(local[p]) = "MPI_Allreduce"
     THEN /\ reductions' = [reductions EXCEPT ![p] = @ + 1]
          /\ IF arrived \cup {p} = Procs
             THEN /\ fpc' = [q \in Procs |-> IF q \in arrived \cup {p}
                                             THEN "reduced" ELSE fpc[q]]
                  /\ total_flux' = [q \in Procs |-> reduced + local[p].flux]
                  /\ arrived' = {}
                  /\ reduced' = 0
             ELSE /\ fpc' = [fpc EXCEPT ![p] = "MPI_Allreduce"]
                  /\ arrived' = arrived \cup {p}
                  /\ reduced' = reduced + local[p].flux
                  /\ UNCHANGED total_flux
     ELSE /\ fpc' = [fpc EXCEPT ![p] = "reduced"]
          /\ total_flux' = [total_flux EXCEPT ![p] = local[p].flux]
          /\ UNCHANGED <<reductions, arrived, reduced>>
  /\ UNCHANGED <<calls, local>>

\* calcFlux returns the total flux.
Flux_Return(p) ==
  /\ fpc[p] = "reduced"
  /\ fpc' = [fpc EXCEPT ![p] = "idle"]
  /\ local' = [local EXCEPT ![p] = NoLocal]
  /\ UNCHANGED <<calls, reductions, total_flux, arrived, reduced>>

FluxNext ==
  \/ \E p \in Procs : Flux_Call(p) /\ UNCHANGED <<stepVars, buildVars, sourceVars>>
  \/ \E p \in Procs : Flux_Face(p) /\ UNCHANGED <<stepVars, buildVars, sourceVars>>
  \/ \E p \in Procs : Flux_Reduce(p) /\ UNCHANGED <<stepVars, buildVars, sourceVars>>
  \/ \E p \in Procs : Flux_Return(p) /\ UNCHANGED <<stepVars, buildVars, sourceVars>>

SpecFlux == FluxInit /\ [][FluxNext]_vars

\* ------------------------------------------------------------- the problem
\* FE space sizes per variable: (p, u) for AVSolver, (u) for HCurlSolver, the
\* equation system's one or two variables for HCurlOperator.
SizesOf(k) ==
  IF k = "AVSolver" THEN [1..2 -> 1..MaxDofs]
  ELSE IF k = "HCurlSolver" THEN [1..1 -> 1..MaxDofs]
  ELSE [1..1 -> 1..MaxDofs] \cup [1..2 -> 1..MaxDofs]

\* Per variable, its essential true DOFs: none, or the first of each.
EssOf(sizes) == { [i \in 1..Len(sizes) |-> e] : e \in {{}, {1}} }

\* The state vectors the integrator may hand in.
InputVectors == { ConstVec(Len(X), v) : v \in FieldValues }

\* ProblemBuilder::ConstructState: the state vector is sized by the block
\* offsets and handed to the operator's Init, which zeroes the fields.
ConstructState(o) == ConstVec(o.true_offsets[Len(o.true_offsets)], 0)

NewOperator(k, sizes) ==
  IF k = "AVSolver" THEN AVSolver_Init(AVSolver_ctor(sizes), sizes)
  ELSE IF k = "HCurlSolver"
       THEN HCurlSolver_Init(HCurlSolver_RegisterVariables(sizes), sizes)
  ELSE HCurlOperator_ctor(HCurlOperator_SetGridFunctions(sizes), sizes)

Init ==
  /\ kind \in Kinds
  /\ \E sizes \in SizesOf(kind) :
       \E ess \in EssOf(sizes), n \in 0..MaxIntBC :
         cfg = [sizes |-> sizes, ess |-> ess,
                nbc |-> [i \in 1..Len(sizes) |-> n]]
  /\ op = NewOperator(kind, cfg.sizes)
  /\ X = ConstructState(op)
  /\ dX_dt = ConstructState(op)
  /\ t = 0
  /\ log = <<>>
  /\ conv = IF kind = "AVSolver" THEN (0 :> TRUE @@ 1 :> TRUE) ELSE (1 :> TRUE)
  /\ solved = IF kind = "AVSolver" THEN (0 :> 0 @@ 1 :> 0) ELSE (1 :> 0)
  /\ X_entry = X
  /\ BuildIdle
  /\ SourcesIdle

\* The integrator advances its time, sets it on the operator and calls
\* ImplicitSolve(dt, X, dX_dt); the linear solvers return what they return.
AVSolver_ImplicitSolve ==
  /\ kind = "AVSolver"
  /\ t < MaxSteps
  /\ \E dt \in DtValues, Xin \in InputVectors,
        s0 \in SolverOutcomes, s1 \in SolverOutcomes :
       LET r == AV_ImplicitSolve(Machine(Xin), dt, t + 1, s0.x, s1.x)
       IN /\ op' = r.op
          /\ X' = r.X
          /\ dX_dt' = r.dX_dt
          /\ log' = r.log
          /\ X_entry' = Xin
          /\ solved' = (0 :> s0.x @@ 1 :> s1.x)
          /\ conv' = (0 :> s0.converged @@ 1 :> s1.converged)
  /\ t' = t + 1
  /\ UNCHANGED <<kind, cfg, buildVars, srcVars>>

HCurlSolver_ImplicitSolve ==
  /\ kind = "HCurlSolver"
  /\ t < MaxSteps
  /\ \E dt \in DtValues, Xin \in InputVectors,
        s \in SolverOutcomes :
       LET r == HS_ImplicitSolve(Machine(Xin), dt, t + 1, s.x)
       IN /\ op' = r.op
          /\ X' = r.X
          /\ dX_dt' = r.dX_dt
          /\ log' = r.log
          /\ X_entry' = Xin
          /\ solved' = (1 :> s.x)
          /\ conv' = (1 :> s.converged)
  /\ t' = t + 1
  /\ UNCHANGED <<kind, cfg, buildVars, srcVars>>

HCurlOperator_ImplicitSolve ==
  /\ kind = "HCurlOperator"
  /\ t < MaxSteps
  /\ \E dt \in DtValues, Xin \in InputVectors,
        s \in SolverOutcomes :
       LET r == HO_ImplicitSolve(Machine(Xin), dt, t + 1, s.x)
       IN /\ op' = r.op
          /\ X' = r.X
          /\ dX_dt' = r.dX_dt
          /\ log' = r.log
          /\ X_entry' = Xin
          /\ solved' = (1 :> s.x)
          /\ conv' = (1 :> s.converged)
  /\ t' = t + 1
  /\ UNCHANGED <<kind, cfg, buildVars, srcVars>>

Next ==
  \/ AVSolver_ImplicitSolve
  \/ HCurlSolver_ImplicitSolve
  \/ HCurlOperator_ImplicitSolve

Spec == Init /\ [][Next]_vars

\* -------------------------------------------------------------- properties
\* The linear systems the operator solves in one invocation.
Systems == DOMAIN solved

Has(ev, sys) == \E i \in 1..Len(log) : log[i].ev = ev /\ log[i].sys = sys

Count(ev, sys) ==
  Cardinality({i \in 1..Len(log) : log[i].ev = ev /\ log[i].sys = sys})

At(ev, sys) == CHOOSE i \in 1..Len(log) : log[i].ev = ev /\ log[i].sys = sys

\* The solver and preconditioner objects set up on the dt-dependent matrix.
DtSolvers(o) ==
  IF kind = "AVSolver" THEN <<o.ams_a1, o.pcg_a1>> ELSE <<o.a1_solver>>

\* C1 (as the spec states it): after every invocation the solver and
\* preconditioner Mult ran with were set up on a matrix assembled for a time
\* step within the relative tolerance of the current one, never for an
\* earlier dt.  AVSolver and HCurlSolver create them only when there are
\* none, so this fails as soon as dt moves beyond the tolerance.
C1_SolverBuiltForCurrentDt ==
  t >= 1 =>
    \A i \in DOMAIN DtSolvers(op) :
      ~Exceeds(op.dtCoef, DtSolvers(op)[i].A.form.dt)

\* C2 (as the spec states it): between two consecutive invocations whose time
\* steps agree within the relative tolerance, the second keeps the solver
\* instances of the first and constructs none.  HCurlOperator constructs a
\* new solver in every invocation.
C2_ReusedWhenDtUnchanged ==
  [][(t >= 1 /\ ~Exceeds(op'.dtCoef, op.dtCoef)) =>
       (DtSolvers(op') = DtSolvers(op) /\ op'.allocs = op.allocs)]_vars

\* C2 (amended): AVSolver and HCurlSolver keep, in every invocation after the
\* first, the solver instances the first one built and construct none,
\* whatever dt is; HCurlOperator constructs a new solver in every invocation.
C2_ReusePerOperator ==
  [][t >= 1 =>
       IF kind = "HCurlOperator"
       THEN /\ op'.allocs = op.allocs + 1
            /\ op'.a1_solver.id # op.a1_solver.id
            /\ op'.a1_solver.A = op'.A1
       ELSE /\ DtSolvers(op') = DtSolvers(op)
            /\ op'.allocs = op.allocs]_vars

\* C2 witness: a second AVSolver step that reused the solver of a1 without
\* rebuilding a1.
C2_Witness ==
  /\ kind = "AVSolver"
  /\ t >= 2
  /\ Has("ReuseSolver", 1)
  /\ ~Has("Assemble", 1)

\* The field the solution of system `sys` is recovered into, and the rows of
\* that system the boundary conditions leave free.
RecoveredField(sys) ==
  IF kind = "AVSolver"
  THEN IF sys = 0 THEN Block(X, 0, cfg.sizes[1])
       ELSE Block(dX_dt, cfg.sizes[1], cfg.sizes[2])
  ELSE dX_dt

EssRows(sys) ==
  IF kind = "AVSolver" THEN cfg.ess[sys + 1] ELSE BlockEss(op.true_offsets)

FreeRows(sys) == (1..Len(RecoveredField(sys))) \ EssRows(sys)

\* C3 (as the spec states it): when a Mult did not converge the invocation
\* reports it, and the unconverged iterate is in no field.  ImplicitSolve
\* returns void and recovers whatever Mult left.
C3_NonConvergenceReported ==
  \A sys \in Systems :
    (t >= 1 /\ ~conv[sys]) =>
      /\ \E i \in 1..Len(log) : log[i].ev = "ReportNonConvergence"
      /\ \A i \in FreeRows(sys) : RecoveredField(sys)[i] # solved[sys]

\* The calls of the last invocation, the solver step named alike whether the
\* solver was made or reused.
Steps ==
  [i \in 1..Len(log) |->
     IF log[i].ev \in {"NewSolver", "ReuseSolver"} THEN "Solver" ELSE log[i].ev]

\* C4: an invocation of HCurlSolver or HCurlOperator makes its calls in the
\* order MakeRef, SetTime, SetTimeStep, UpdateSystem, FormLinearSystem, solver
\* construction or selection, Mult, RecoverSolution; and in every operator
\* each assembly runs with the time and the time step of this invocation.
C4_StepOrder ==
  t >= 1 =>
    /\ kind # "AVSolver" =>
         Steps = <<"MakeRef", "SetTime", "SetTimeStep", "UpdateSystem",
                   "FormLinearSystem", "Solver", "Mult", "RecoverSolution">>
    /\ \A i \in 1..Len(log) :
         log[i].ev \in {"Assemble", "UpdateSystem", "FormLinearSystem"} =>
           (log[i].time = t /\ log[i].dt = op.dtCoef)

\* C4 witness: a second HCurlOperator step whose update ran at time 2.
C4_Witness ==
  /\ kind = "HCurlOperator"
  /\ t = 2
  /\ Len(log) = 8
  /\ log[4].ev = "UpdateSystem"
  /\ log[4].time = 2

\* C5: in every invocation each linear system is formed, solved and
\* recovered exactly once, in that order.
C5_RecoverOncePerSolve ==
  t >= 1 =>
    \A sys \in Systems :
      /\ Count("FormLinearSystem", sys) = 1
      /\ Count("Mult", sys) = 1
      /\ Count("RecoverSolution", sys) = 1
      /\ At("FormLinearSystem", sys) < At("Mult", sys)
      /\ At("Mult", sys) < At("RecoverSolution", sys)

\* C5 witness: an AVSolver step that recovered both of its systems.
C5_Witness ==
  /\ kind = "AVSolver"
  /\ t >= 1
  /\ Has("RecoverSolution", 0)
  /\ Has("RecoverSolution", 1)

VarRef(i) ==
  IF kind = "AVSolver" THEN <<op.p_, op.u_>>[i] ELSE op.test_vars[i]

DerivRef(i) ==
  IF kind = "AVSolver" THEN <<op.dp_, op.du_>>[i] ELSE op.trial_vars[i]

\* C7: after every invocation variable i refers into X and its time
\* derivative into dX_dt, both at true_offsets[i], and the solution recovered
\* at the end of the invocation is in dX_dt in exactly those block ranges
\* (AVSolver solves for du/dt only: the dp/dt block is zero).
C7_AliasingAtBlockOffsets ==
  t >= 1 =>
    /\ \A i \in 1..Len(cfg.sizes) :
         /\ VarRef(i) = Ref("X", op.true_offsets[i], cfg.sizes[i])
         /\ DerivRef(i) = Ref("dX_dt", op.true_offsets[i], cfg.sizes[i])
    /\ IF kind = "AVSolver"
       THEN /\ Block(dX_dt, op.true_offsets[2], cfg.sizes[2]) = op.X1
            /\ Block(dX_dt, op.true_offsets[1], cfg.sizes[1])
                 = ConstVec(cfg.sizes[1], 0)
       ELSE \A i \in 1..Len(cfg.sizes) :
              Block(dX_dt, op.true_offsets[i], cfg.sizes[i])
                = Block(op.X1, op.true_offsets[i], cfg.sizes[i])

\* C7 witness: an AVSolver step that left a nonzero du/dt behind a p block
\* of two DOFs.
C7_Witness ==
  /\ kind = "AVSolver"
  /\ t >= 1
  /\ cfg.sizes = <<2, 1>>
  /\ dX_dt[3] # 0
  /\ op.du_.off = 2

\* C8: in the field a system is recovered into, every essential DOF holds
\* the boundary value imposed at this time and every other DOF holds what the
\* solver returned.
C8_EssentialRoundTrip ==
  t >= 1 =>
    \A sys \in Systems :
      \A i \in 1..Len(RecoveredField(sys)) :
        RecoveredField(sys)[i] =
          IF i \in EssRows(sys) THEN CoefAt(t) ELSE solved[sys]

\* C8 witness: a recovered field with an essential and a free DOF that hold
\* different values.
C8_Witness ==
  /\ kind = "HCurlOperator"
  /\ t >= 1
  /\ cfg.sizes = <<2>>
  /\ cfg.ess[1] = {1}
  /\ dX_dt[1] = CoefAt(t)
  /\ dX_dt[2] = solved[1]
  /\ dX_dt[1] # dX_dt[2]

\* The operator and right-hand side of a linear system as last formed.
Formed(o) ==
  IF kind = "AVSolver"
  THEN <<o.A0, o.B0, o.A1, o.B1>>
  ELSE <<o.A1, o.B1>>

\* C9 (as the spec states it): an invocation with the time step, coefficient
\* values, boundary data and fields of the one before it forms the same
\* operators and right-hand sides.  AVSolver gives b0 the boundary
\* integrators again in every invocation and never removes the earlier ones.
C9_AssemblyIdempotent ==
  [][(/\ t >= 1
      /\ op'.dtCoef = op.dtCoef
      /\ CoefAt(t') = CoefAt(t)
      /\ X' = X) => Formed(op') = Formed(op)]_vars

\* C10 (as the spec states it): in AVSolver every change of dt between steps
\* rebuilds a1, an unchanged dt rebuilds nothing, and a0, m1, curlCurl and
\* grad stay as assembled at Init.
C10_AnyDtChangeRebuilds ==
  [][(kind = "AVSolver" /\ t >= 1) =>
       /\ op'.dtCoef # op.dtCoef =>
            (op'.a1 = Assembled("a1", CoefAt(t'), op'.dtCoef)
             /\ op'.dt_A1 = op'.dtCoef)
       /\ op'.dtCoef = op.dtCoef => op'.a1 = op.a1
       /\ op'.a0 = op.a0 /\ op'.m1 = op.m1
       /\ op'.curlCurl = op.curlCurl /\ op'.grad = op.grad]_vars

\* C10 (amended): in AVSolver a1 is rebuilt, with the coefficients and dt of
\* the invocation, exactly when dt differs from the dt a1 was last built with
\* (dt_A1) by more than 1.0e-12 * dt; otherwise a1 and dt_A1 are kept; a0,
\* m1, curlCurl and grad are never reassembled after Init.
C10_RebuildBeyondTolerance ==
  [][(kind = "AVSolver" /\ t >= 1) =>
       /\ IF Exceeds(op'.dtCoef, op.dt_A1)
          THEN /\ op'.a1 = Assembled("a1", CoefAt(t'), op'.dtCoef)
               /\ op'.dt_A1 = op'.dtCoef
          ELSE /\ op'.a1 = op.a1
               /\ op'.dt_A1 = op.dt_A1
       /\ op'.a0 = Assembled("a0", CoefAt(0), NoDt)
       /\ op'.m1 = Assembled("m1", CoefAt(0), NoDt)
       /\ op'.curlCurl = Assembled("curlCurl", CoefAt(0), NoDt)
       /\ op'.grad = Assembled("grad", 0, NoDt)]_vars

\* C10 witness: an AVSolver step after the first that rebuilt a1.
C10_Witness ==
  /\ kind = "AVSolver"
  /\ t >= 2
  /\ Has("Assemble", 1)
  /\ op.a1.dt = op.dtCoef

\* The names of a sequence, each once, in order of first appearance.
RECURSIVE FirstInsertionOrder(_)
FirstInsertionOrder(names) ==
  IF names = <<>> THEN <<>>
  ELSE LET front == FirstInsertionOrder(SubSeq(names, 1, Len(names) - 1))
           last == names[Len(names)]
       IN IF VectorContainsName(front, last) THEN front
          ELSE Append(front, last)

\* C11: after any sequence of AddKernel calls the ordered trial-variable
\* names hold each name once, in the order the names were first passed, and
\* the bucket of every kernel filed through AddKernel is among them.
C11_TrialNamesOnceInOrder ==
  /\ \A i, j \in 1..Len(es.trial_var_names) :
       es.trial_var_names[i] = es.trial_var_names[j] => i = j
  /\ es.trial_var_names = FirstInsertionOrder(added)
  /\ \A k \in 1..Len(es.kernels) :
       es.kernels[k].kernel.type = "MixedVectorGradient"
         => VectorContainsName(es.trial_var_names, es.kernels[k].bucket)

\* C11 witness: a name passed three times and another once.
C11_Witness ==
  /\ Len(added) = 3
  /\ added[1] = added[3]
  /\ added[1] # added[2]
  /\ Len(es.trial_var_names) = 2

\* C12: a step that registers a name the variable registry already holds
\* ends in a configuration error and leaves the entry as it was.
C12_DuplicateRegistrationFails ==
  [][\A n \in DOMAIN gridfunctions :
       /\ n \in DOMAIN gridfunctions'
       /\ gridfunctions'[n] # gridfunctions[n] => phase' = "aborted"]_vars

\* The kernels of the equation system.
Kernels == {es.kernels[k] : k \in 1..Len(es.kernels)}

\* C13: a kernel whose coefficient is not registered aborts the run in its
\* Init, so an initialised equation system has every kernel's coefficient
\* resolved and no term of a form was built from a null coefficient.
C13_ApplyOnlyWithResolvedCoefficient ==
  /\ \A i \in 1..Len(forms) : forms[i].coef \in coefficients
  /\ phase = "initialised" =>
       \A k \in Kernels : /\ k.kernel.coef = k.kernel.coef_name
                          /\ k.kernel.coef \in coefficients
  /\ \A k \in Kernels :
       /\ k.kernel.coef # "null"
       /\ k.kernel.coef = "abort" =>
            /\ phase = "aborted"
            /\ abort = k.kernel.coef_name
            /\ k.kernel.coef_name \notin coefficients

\* C13 witness: a mixed gradient kernel naming a coefficient nobody
\* registered has aborted the run in its Init.
C13_Witness ==
  /\ phase = "aborted"
  /\ abort = "sigma"
  /\ \E k \in Kernels : /\ k.kernel.type = "MixedVectorGradient"
                        /\ k.kernel.coef = "abort"

\* The term one Apply of the kernel adds to a form.
TermOf(k) ==
  [bucket |-> k.bucket, type |-> k.kernel.type, coef |-> k.kernel.coef]

\* C15: after every assembly pass the forms hold exactly one term per
\* kernel, that kernel's, however many passes were made before.
C15_OneTermPerKernel ==
  passes >= 1 =>
    /\ Len(forms) = Len(es.kernels)
    /\ \A k \in 1..Len(es.kernels) : forms[k] = TermOf(es.kernels[k])

\* C15 witness: a second pass over forms a mixed gradient kernel
\* contributes to.
C15_Witness ==
  /\ passes = 2
  /\ \E i \in 1..Len(forms) : forms[i].type = "MixedVectorGradient"

\* The variable names registered with the equation system.
RegisteredNames ==
  {es.trial_var_names[i] : i \in 1..Len(es.trial_var_names)} \cup
  {es.trial_var_time_derivative_names[i] :
     i \in 1..Len(es.trial_var_time_derivative_names)}

\* C17: when assembly begins every kernel is filed in the bucket of a
\* variable name registered with the equation system.
C17_BucketsAreRegistered ==
  phase = "initialised" => \A k \in Kernels : k.bucket \in RegisteredNames

\* C17 witness: assembly begins with kernels filed through AddKernel and
\* through addKernels.
C17_Witness ==
  /\ phase = "initialised"
  /\ \E k \in Kernels : k.kernel.type = "MixedVectorGradient"
  /\ \E k \in Kernels : /\ k.kernel.type = "CurlCurl"
                        /\ k.bucket = GetTimeDerivativeName(h_curl_var_name)

\* C18: when assembly begins the time derivative of every trial variable
\* of the equation system is a registered grid function.
C18_TimeDerivativesRegistered ==
  phase = "initialised" =>
    \A i \in 1..Len(es.trial_var_names) :
      Registry_Has(gridfunctions, GetTimeDerivativeName(es.trial_var_names[i]))

\* C18 witness: assembly begins with the state variable built from
\* defaults and another variable supplied by the user.
C18_Witness ==
  /\ phase = "initialised"
  /\ Registry_Has(gridfunctions, h_curl_var_name)
  /\ gridfunctions[h_curl_var_name] = "default"
  /\ VectorContainsName(es.trial_var_names, "electric_potential")

\* C19: the coefficient scaled by the time step is not registered before
\* the equation system's Init, is registered once Init has run, and the
\* curl-curl kernel naming it never fails to resolve it.
C19_ScaledCoefficientRegisteredInInit ==
  /\ phase \in {"construct", "gridfunctions", "coefficients", "kernels"} =>
       dtalpha_coef_name \notin coefficients
  /\ phase = "initialised" =>
       /\ dtalpha_coef_name \in coefficients
       /\ \A k \in Kernels :
            k.kernel.type = "CurlCurl" => k.kernel.coef = dtalpha_coef_name
  /\ \A k \in Kernels : k.kernel.type = "CurlCurl" => k.kernel.coef # "abort"
  /\ abort # dtalpha_coef_name

\* C19 witness: the curl-curl kernel has resolved the scaled coefficient.
C19_Witness ==
  /\ phase = "initialised"
  /\ \E k \in Kernels : /\ k.kernel.type = "CurlCurl"
                        /\ k.kernel.coef_name = dtalpha_coef_name
                        /\ k.kernel.coef = dtalpha_coef_name

\* The objects whose Init returned: the sources and the open coils of the
\* closed coils among them.
Initialised ==
  LET done == {sources[i] : i \in {k \in 1..Len(sources) : sources[k].ready}}
  IN done \cup UNION {{s.opencoil_[i] : i \in 1..Len(s.opencoil_)} : s \in done}

\* C14: no Init returns with a dependency it looked up left null or
\* replaced by a substitute.
C14_MissingDependencyIsFatal ==
  \A s \in Initialised :
    /\ s.J_parent_ # "null"
    /\ s.Itotal_ \notin {"null", "unit"}
    /\ s.type \in {"OpenCoilSolver", "ScaledVectorGridFunctionAux"} =>
         s.V_parent_ # "null"
    /\ s.type = "ClosedCoilSolver" => s.HCurlFESpace_parent_ # "null"

\* C16: a source's Apply leaves in the linear form what the form held
\* before plus the source's current density.
C16_ApplyAddsToForm ==
  [][applied' # applied /\ applied' # {} =>
       \A d \in 1..MaxDofs :
         linear_form'[d] = Plus(linear_form[d], J_parent'[d])]_vars

\* C20: after an ImplicitSolve invocation every entry of X equals the
\* value it had when the integrator handed X in.
C20_XIsReadOnly == t >= 1 => X = X_entry

C25_AssembledDtWithinTolerance ==
  (kind = "AVSolver" /\ t >= 1) =>
    /\ op.a1 # NullForm
    /\ op.a1.dt = op.dt_A1
    /\ ~Exceeds(op.dtCoef, op.dt_A1)

\* C25 witness: a change of the time step within the tolerance kept the
\* earlier assembly.
C25_Witness ==
  /\ kind = "AVSolver"
  /\ t >= 2
  /\ op.dtCoef # op.dt_A1
  /\ ~Exceeds(op.dtCoef, op.dt_A1)


\* The open coils of the problem: the sources that are open coils and the
\* open coils of the closed coils, whatever their Init came to.
OpenCoils ==
  LET all == {sources[i] : i \in 1..Len(sources)}
  IN {s \in all : s.type = "OpenCoilSolver"}
     \cup UNION {{s.opencoil_[i] : i \in 1..Len(s.opencoil_)} : s \in all}

\* The closed coils whose last Init returned.
ClosedCoils ==
  {s \in {sources[i] : i \in 1..Len(sources)} :
     s.type = "ClosedCoilSolver" /\ s.ready}

\* C21: after ~ClosedCoilSolver none of the child vectors holds a pointer:
\* deleteAndClear has left each of them empty.
C21_DestroyedVectorsAreEmpty ==
  \A s \in ClosedCoils :
    s.destroyed =>
      /\ s.fespaces_ = <<>> /\ s.bc_maps_ = <<>> /\ s.coefs_ = <<>>
      /\ s.ocs_params_ = <<>> /\ s.opencoil_ = <<>>

\* C22: whenever an Init returns, every element of the mesh has the domain
\* attribute it had before that Init, on a first and on a repeated call.
C22_InitRestoresAttributes ==
  [][(sources' # sources /\ phase = "sources" /\ phase' = "sources") =>
       mesh'.attributes = mesh.attributes]_vars

\* A closed coil with a wedge has been initialised twice and has returned.
C22_Witness ==
  /\ phase = "sources"
  /\ \E s \in ClosedCoils :
       /\ Len(s.old_dom_attrs) = 2 * MaxDofs
       /\ s.opencoil_[2].dom # {}
       /\ \A e \in Elements : mesh.attributes[e] = s.old_dom_attrs[e]

\* C23: a Solve of the auxiliary solver leaves in the scaled field the
\* input field as it is at that call times the coefficient's value at
\* that call, assembled in that call; the mass matrix and the solver are
\* those of Init.
C23_SolveUsesCurrentInputs ==
  [][(postprocessed' # postprocessed /\ postprocessed' # {}) =>
       /\ \A d \in 1..MaxDofs :
            V_parent'[d] = Times(J_parent[d], I_now * aConst)
       /\ \A i \in postprocessed' \ postprocessed :
            /\ sources'[i].mixed_mat = Num(I_now)
            /\ sources'[i].a_mat = "Init" /\ sources'[i].solver = "Init"
            /\ sources[i].a_mat = "Init" /\ sources[i].solver = "Init"]_vars

\* In a second pass, at a non-zero current and over a non-zero input
\* field, the auxiliary solver has just been solved.
C23_Witness ==
  /\ passes = 2 /\ I_now # 0
  /\ \E i \in postprocessed :
       /\ sources[i].mixed_mat = Num(I_now)
       /\ \E d \in 1..MaxDofs :
            /\ J_parent[d].finite /\ J_parent[d].v # 0
            /\ V_parent[d] = Times(J_parent[d], I_now * aConst)

\* C26: a closed coil whose Init returned holds two open coils, the first
\* over the coil's domains with the electrodes (electrode_face, new), the
\* second over the wedge with (new, electrode_face), both with
\* electrode_face as reference face; its own electrodes are again
\* (electrode_face, new).
C26_TwoOpposedOpenCoils ==
  \A s \in ClosedCoils :
    LET new == s.elec_attrs_[2]
    IN /\ Len(s.opencoil_) = 2
       /\ s.elec_attrs_[1] = electrode_face
       /\ new \notin {0, electrode_face}
       /\ s.opencoil_[1].coil_domains_ = s.coil_domains_
       /\ s.opencoil_[1].elec_attrs_ = <<electrode_face, new>>
       /\ s.opencoil_[2].coil_domains_ = {s.new_domain_attr_}
       /\ s.opencoil_[2].elec_attrs_ = <<new, electrode_face>>
       /\ s.opencoil_[1].ref_face_ = electrode_face
       /\ s.opencoil_[2].ref_face_ = electrode_face

\* A closed coil has returned from Init with its two open coils, the
\* second over a wedge that holds an element.
C26_Witness ==
  \E s \in ClosedCoils :
    /\ Len(s.opencoil_) = 2
    /\ s.opencoil_[2].dom # {}
    /\ s.opencoil_[2].elec_attrs_[1] = s.elec_attrs_[2]

\* C27: an open coil whose Init returned holds the unit-flux fields of
\* Init, whatever currents it has been applied at.
C27_ApplyKeepsChildFields ==
  \A s \in OpenCoils :
    (s.J_parent_ # "null" /\ s.Itotal_ # "null") =>
      s.J_ = Num(1) /\ s.V_ = Num(1)

\* C28: no object of an open coil is deleted more than once.
C28_ReleasedExactlyOnce ==
  \A s \in OpenCoils : ~DeletedTwice(s)

\* C29: a process has entered one reduction for every calcFlux call it
\* has got to the end of the loop of, and no process waits in a reduction
\* that the others will never enter.
C29_OneReductionPerCall ==
  /\ \A p \in Procs :
       reductions[p] = IF fpc[p] = "loop" THEN calls[p] - 1 ELSE calls[p]
  /\ ~ /\ \E p \in Procs : fpc[p] = "MPI_Allreduce"
       /\ \A q \in Procs :
            \/ fpc[q] = "MPI_Allreduce"
            \/ fpc[q] = "idle" /\ calls[q] = MaxCalls

\* A process that integrated no face, one of its faces having no
\* transformation, has come out of its second reduction with the flux of
\* the others.
C29_Witness ==
  \E p \in Procs :
    /\ fpc[p] = "reduced" /\ calls[p] = 2 /\ reductions[p] = 2
    /\ local[p].flux = 0 /\ "null" \in local[p].skips
    /\ total_flux[p] > 0

====
